---- MODULE Spec2Model ----
(***************************************************************************)
(* Model of the local TCP forwarding proxy of lxc-dev-manager              *)
(* (internal/proxy/proxy.go): Proxy (one listener, an accept loop, one     *)
(* handler goroutine per admitted connection, a semaphore channel and a    *)
(* WaitGroup) and Manager (a mutex and a slice of proxies).                *)
(*                                                                         *)
(* Every goroutine is a process with its own position: the callers of      *)
(* Manager.Add / Manager.StopAll (tpc), the accept loop of each proxy      *)
(* (loopPc), the handler of each connection (hpc) and its two copy         *)
(* goroutines (l2r, r2l).  The operating system is the port table          *)
(* (portOwner) and the clients.                                            *)
(*                                                                         *)
(* Two users of the repository are modelled with it: the proxy command     *)
(* (runProxy: one Add per configured port, the wait for a signal, StopAll) *)
(* and the commands that load, modify and save containers.yaml under the   *)
(* config lock (internal/config/config.go), next to project create and     *)
(* project delete, which write and remove the file without the lock.       *)
(***************************************************************************)
EXTENDS Integers, Sequences, FiniteSets, TLC

\* cap(p.connSem).  The source sets 100; the model checks the same code with
\* a small capacity so that a full gate is reachable.
MaxConnectionsPerProxy == 2
\* Proxy objects that New may allocate in one run.
MaxProxies == 2
\* Goroutines calling Manager.Add / Manager.StopAll.
MaxThreads == 2
Proxies == 1..MaxProxies
\* The local ports: two, so that callers can ask for the same port or for
\* different ones.
Ports   == {1, 2}
Threads == 1..MaxThreads
\* The connections of a run: two more than the gate admits.
Conns   == 1..(MaxConnectionsPerProxy + 2)
\* One client more than the gate admits.
Clients == 1..(MaxConnectionsPerProxy + 1)

\* ConnectionTimeout of the source, in seconds.
ConnectionTimeout == 30
\* DialTimeout of the source, in seconds.
DialTimeout == 5
\* The clock advances by at most half a ConnectionTimeout at a time, up
\* to MaxTime.
Quantum == ConnectionTimeout \div 2
MaxTime == 40
\* The longest payload a client writes.
MaxLen == 2
\* The byte values client c writes: two per client, no two clients share one.
Bytes(c) == {2 * c - 1, 2 * c}

\* Two terminals running commands in the same project directory.
Procs == {1, 2}
\* The container names the commands are given.
Names == {1, 2}
\* An entry of containers.yaml: container n itself, its "initial-state"
\* snapshot, or its snapshot under the name a user gave.
Container(n)    == <<n, 0>>
InitialState(n) == <<n, 1>>
UserSnapshot(n) == <<n, 2>>
EntriesOf(n)    == {Container(n), InitialState(n), UserSnapshot(n)}
\* The `project:` line of containers.yaml: in the set exactly when the file
\* exists.
Project == <<0, 0>>
\* What containers.yaml can hold.
Entries == {Project} \cup UNION {EntriesOf(n) : n \in Names}

\* The commands: container create NAME, container clone SRC NAME,
\* snapshot create NAME, snapshot delete NAME, remove NAME.
NoOp == [kind |-> "none", name |-> 0, src |-> 0]
Ops ==
    {[kind |-> k, name |-> n, src |-> n] :
        k \in {"create", "snapshot_create", "snapshot_delete", "remove"}, n \in Names}
    \cup {[kind |-> "clone", name |-> x[1], src |-> x[2]] :
             x \in {y \in Names \X Names : y[1] # y[2]}}
\* project create and project delete.
ProjectOps == {[kind |-> k, name |-> 0, src |-> 0] : k \in {"project_create", "project_delete"}}

VARIABLES
    portOwner,  \* OS port table: "free", "proxy" (held by a Proxy listener), "ext"
    LocalPort,  \* Proxy.LocalPort; 0 for a Proxy object not allocated
    listener,   \* Proxy.listener: "nil", "open", "closed"
    done,       \* Proxy.done is closed
    wg,         \* Proxy.wg counter
    connSem,    \* len(Proxy.connSem)
    loopPc,     \* acceptLoop goroutine: "none", "accept", "select", "exited"
    loopConn,   \* the conn Accept returned to the loop, 0 if none
    stopPc,     \* Proxy.Stop: "none", "signalled", "closed", "returned"
    proxies,    \* Manager.proxies
    mu,         \* Manager.mu: 0 or the thread holding it
    tpc,        \* caller goroutine: "idle","add","add_ok","add_err","range","stop"
    tproxy,     \* the Proxy the caller works on (Add's local `proxy`, StopAll's `p`)
    tport,      \* Add's localPort argument
    tidx,       \* StopAll's range index
    cst,        \* client connection: "idle","backlog","accepted","admitted","rejected","dropped"
    cproxy,     \* the Proxy whose listener the client connected to
    hpc,        \* handleConnection goroutine: "none","spawned","start" (dialing),"relay","release","wgdone","finished"
    local,      \* handler's local net.Conn: "none","open","wshut" (CloseWrite),"closed"
    remote,     \* handler's remote net.Conn: "none","open","wshut" (CloseWrite),"closed"
    l2r,        \* goroutine io.Copy(remote, local): "none","copy","fin"
    r2l,        \* goroutine io.Copy(local, remote): "none","copy","fin"
    now,        \* the clock, in seconds
    began,      \* when the handler of the connection began to run (line 97), 0 if none
    ldl,        \* deadline set on the local conn, 0 if none
    rdl,        \* deadline set on the remote conn, 0 if none
    wrote,      \* the bytes the client has written to its socket
    cfin,       \* the client has shut down its sending side
    lbuf,       \* bytes received on the local conn, not yet read by io.Copy
    rgot,       \* the bytes written to the remote conn (delivered to the backend)
    becho,      \* how many of them the echo backend has sent back
    bfin,       \* the backend has closed its connection
    rbuf,       \* bytes received on the remote conn, not yet read by io.Copy
    cgot,       \* the bytes written to the local conn (delivered to the client)
    lastCopy,   \* when bytes last moved on the connection (set with the deadlines)
    cmdPc,      \* runProxy: "none","add","in_add","cleanup","in_cleanup","wait",
                \*           "in_stop","returned_nil","returned_err","killed"
    cmdPorts,   \* runProxy's `ports`, the result of cfg.GetPorts(name)
    cmdIdx,     \* the position of `for _, port := range ports`
    sigChan,    \* len(sigChan), the signals delivered and not yet received
    file,       \* containers.yaml: the set of entries it lists, {} when there is no file
    held,       \* the processes holding the flock on containers.yaml.lock
    ppc,        \* a command: "none","lock","load","work","save","resave","release",
                \*            "pload","psave","premove" (project create, delete),"done","failed"
    pop,        \* what the command does: its kind and its entry
    pcfg        \* the *Config the command loaded and modifies in memory

osVars    == <<portOwner>>
proxyVars == <<LocalPort, listener, done, wg, connSem, loopPc, loopConn, stopPc>>
mgrVars   == <<proxies, mu>>
thrVars   == <<tpc, tproxy, tport, tidx>>
connVars  == <<cst, cproxy, hpc, local, remote, l2r, r2l>>
timeVars  == <<now, began, ldl, rdl, lastCopy>>
dataVars  == <<wrote, cfin, lbuf, rgot, becho, bfin, rbuf, cgot>>
netVars   == <<timeVars, dataVars>>
cmdVars   == <<cmdPc, cmdPorts, cmdIdx, sigChan>>
cfgVars   == <<file, held, ppc, pop, pcfg>>
cliVars   == <<cmdVars, cfgVars>>
vars      == <<osVars, proxyVars, mgrVars, thrVars, connVars, netVars, cliVars>>

Init ==
    /\ portOwner = [q \in Ports |-> "free"]
    /\ LocalPort = [p \in Proxies |-> 0]
    /\ listener  = [p \in Proxies |-> "nil"]
    /\ done      = [p \in Proxies |-> FALSE]
    /\ wg        = [p \in Proxies |-> 0]
    /\ connSem   = [p \in Proxies |-> 0]
    /\ loopPc    = [p \in Proxies |-> "none"]
    /\ loopConn  = [p \in Proxies |-> 0]
    /\ stopPc    = [p \in Proxies |-> "none"]
    /\ proxies   = <<>>
    /\ mu        = 0
    /\ tpc       = [t \in Threads |-> "idle"]
    /\ tproxy    = [t \in Threads |-> 0]
    /\ tport     = [t \in Threads |-> 0]
    /\ tidx      = [t \in Threads |-> 0]
    /\ cst       = [c \in Conns |-> "idle"]
    /\ cproxy    = [c \in Conns |-> 0]
    /\ hpc       = [c \in Conns |-> "none"]
    /\ local     = [c \in Conns |-> "none"]
    /\ remote    = [c \in Conns |-> "none"]
    /\ l2r       = [c \in Conns |-> "none"]
    /\ r2l       = [c \in Conns |-> "none"]
    /\ now       = 0
    /\ began     = [c \in Conns |-> 0]
    /\ ldl       = [c \in Conns |-> 0]
    /\ rdl       = [c \in Conns |-> 0]
    /\ lastCopy  = [c \in Conns |-> 0]
    /\ wrote     = [c \in Conns |-> <<>>]
    /\ cfin      = [c \in Conns |-> FALSE]
    /\ lbuf      = [c \in Conns |-> <<>>]
    /\ rgot      = [c \in Conns |-> <<>>]
    /\ becho     = [c \in Conns |-> 0]
    /\ bfin      = [c \in Conns |-> FALSE]
    /\ rbuf      = [c \in Conns |-> <<>>]
    /\ cgot      = [c \in Conns |-> <<>>]
    /\ cmdPc     = "none"
    /\ cmdPorts  = <<>>
    /\ cmdIdx    = 0
    /\ sigChan   = 0
    /\ file      = {Project}
    /\ held      = {}
    /\ ppc       = [p \in Procs |-> "none"]
    /\ pop       = [p \in Procs |-> NoOp]
    /\ pcfg      = [p \in Procs |-> {}]

----------------------------------------------------------------------------
(* Helpers *)

\* A Proxy object New has not handed out yet; New takes the lowest one.
Unallocated(p) == LocalPort[p] = 0
Fresh(p) == Unallocated(p) /\ \A q \in Proxies : q < p => ~Unallocated(q)

\* The clients whose connection sits in the listen backlog of p.
Backlog(p) == {c \in Conns : cst[c] = "backlog" /\ cproxy[c] = p}

----------------------------------------------------------------------------
(* Proxy *)

\* New(localPort, remoteHost, remotePort): a Proxy with an open `done`
\* channel, an empty connSem, a zero WaitGroup and a nil listener.
New(p, port) ==
    LocalPort' = [LocalPort EXCEPT ![p] = port]

\* A bind that never fails (a listener sharing its port).
ListenErrNever(port) == FALSE

\* net.Listen fails when the port is already bound.
ListenErr(port) == portOwner[port] # "free"

\* A Start that counts and spawns the accept loop before it binds.
StartSpawnsFirst(p, port) ==
    /\ wg'     = [wg EXCEPT ![p] = @ + 1]
    /\ loopPc' = [loopPc EXCEPT ![p] = "accept"]
    /\ IF ListenErr(port)
       THEN UNCHANGED <<portOwner, listener>>
       ELSE /\ portOwner' = [portOwner EXCEPT ![port] = "proxy"]
            /\ listener'  = [listener EXCEPT ![p] = "open"]

\* A Start that spawns the accept loop without counting it.
StartUncounted(p, port) ==
    IF ListenErr(port)
    THEN UNCHANGED <<portOwner, listener, wg, loopPc>>
    ELSE /\ portOwner' = [portOwner EXCEPT ![port] = "proxy"]
         /\ listener'  = [listener EXCEPT ![p] = "open"]
         /\ wg'        = wg
         /\ loopPc'    = [loopPc EXCEPT ![p] = "accept"]

\* Proxy.Start: bind; on error return it, touching nothing; otherwise keep
\* the listener, wg.Add(1) and spawn acceptLoop.
Start(p, port) ==
    IF ListenErr(port)
    THEN UNCHANGED <<portOwner, listener, wg, loopPc>>
    ELSE /\ portOwner' = [portOwner EXCEPT ![port] = "proxy"]
         /\ listener'  = [listener EXCEPT ![p] = "open"]
         /\ wg'        = [wg EXCEPT ![p] = @ + 1]
         /\ loopPc'    = [loopPc EXCEPT ![p] = "accept"]

\* A Stop that goes on to close the listener without raising the signal.
StopSignalForgets(p) ==
    /\ stopPc[p] = "none"
    /\ ~done[p]
    /\ done'   = done
    /\ stopPc' = [stopPc EXCEPT ![p] = "signalled"]

\* Proxy.Stop, first statement: close(p.done).  Closing a closed channel
\* panics, so the step needs the channel open.
StopSignal(p) ==
    /\ stopPc[p] = "none"
    /\ ~done[p]
    /\ done'   = [done EXCEPT ![p] = TRUE]
    /\ stopPc' = [stopPc EXCEPT ![p] = "signalled"]

\* A Stop that leaves the listener open.
StopCloseKeepsListener(p) ==
    /\ stopPc[p] = "signalled"
    /\ stopPc' = [stopPc EXCEPT ![p] = "closed"]
    /\ UNCHANGED <<listener, portOwner, cst>>

\* Proxy.Stop, second statement: if p.listener != nil { p.listener.Close() }.
\* The kernel frees the port and resets the connections still in the backlog.
StopClose(p) ==
    /\ stopPc[p] = "signalled"
    /\ stopPc' = [stopPc EXCEPT ![p] = "closed"]
    /\ IF listener[p] # "nil"
       THEN /\ listener'  = [listener EXCEPT ![p] = "closed"]
            /\ portOwner' = [portOwner EXCEPT ![LocalPort[p]] = "free"]
            /\ cst' = [c \in Conns |-> IF c \in Backlog(p) THEN "dropped" ELSE cst[c]]
       ELSE UNCHANGED <<listener, portOwner, cst>>

\* A Stop that does not wait for the spawned work.
WaitReturnsAtOnce(p) == TRUE

\* p.wg.Wait() returns once the counter is zero.
WaitReturns(p) == wg[p] = 0

\* A Stop that waits for the accept loop only.
StopWaitForLoopOnly(p) ==
    /\ stopPc[p] = "closed"
    /\ loopPc[p] = "exited"
    /\ stopPc' = [stopPc EXCEPT ![p] = "returned"]

\* Proxy.Stop, last statement: p.wg.Wait(), then return.
StopWait(p) ==
    /\ stopPc[p] = "closed"
    /\ WaitReturns(p)
    /\ stopPc' = [stopPc EXCEPT ![p] = "returned"]

----------------------------------------------------------------------------
(* acceptLoop *)

\* p.listener.Accept() returns a connection: the oldest of the backlog.
Accept(p, c) ==
    /\ loopPc[p] = "accept"
    /\ listener[p] = "open"
    /\ c \in Backlog(p)
    /\ \A d \in Backlog(p) : c <= d
    /\ cst'      = [cst EXCEPT ![c] = "accepted"]
    /\ local'    = [local EXCEPT ![c] = "open"]
    /\ loopConn' = [loopConn EXCEPT ![p] = c]
    /\ loopPc'   = [loopPc EXCEPT ![p] = "select"]
    /\ UNCHANGED <<cliVars, netVars, osVars, LocalPort, listener, done, wg, connSem, stopPc,
                   mgrVars, thrVars, cproxy, hpc, remote, l2r, r2l>>

\* A loop that gives up on any Accept error.
AcceptErrExitsAlways(p) == TRUE

\* What the loop does with an Accept error: return when done is closed (the
\* deferred wg.Done runs), otherwise continue.
AcceptErrExits(p) == done[p]

\* A loop that closes its listener when Accept fails.
AcceptErrorClosesListener(p) ==
    /\ loopPc[p] = "accept"
    /\ listener[p] = "open"
    /\ listener'  = [listener EXCEPT ![p] = "closed"]
    /\ portOwner' = [portOwner EXCEPT ![LocalPort[p]] = "free"]
    /\ UNCHANGED <<cliVars, netVars, LocalPort, done, wg, connSem, loopPc, loopConn, stopPc,
                   mgrVars, thrVars, connVars>>

\* p.listener.Accept() returns an error: the listener was closed, or the
\* accept failed for a transient reason on an open listener.
AcceptError(p) ==
    /\ loopPc[p] = "accept"
    /\ IF AcceptErrExits(p)
       THEN /\ loopPc' = [loopPc EXCEPT ![p] = "exited"]
            /\ wg'     = [wg EXCEPT ![p] = @ - 1]
       ELSE UNCHANGED <<loopPc, wg>>
    /\ UNCHANGED <<cliVars, netVars, osVars, LocalPort, listener, done, connSem, loopConn, stopPc,
                   mgrVars, thrVars, connVars>>

\* A gate that never fills (a blocking or unbounded acquire).
SemHasRoomAlways(p) == TRUE

\* A gate that counts itself full one slot early.
SemHasRoomButOne(p) == connSem[p] < MaxConnectionsPerProxy - 1

\* The select's send case is ready: the semaphore channel has room.
SemHasRoom(p) == connSem[p] < MaxConnectionsPerProxy

\* A deadline twice as far away.
DeadlineTwice(t) == t + 2 * ConnectionTimeout

\* time.Now().Add(ConnectionTimeout), lines 97 and 108.
Deadline(t) == t + ConnectionTimeout

\* select case p.connSem <- struct{}{}: wg.Add(1); go p.handleConnection(conn).
\* The go statement makes the handler runnable; the loop goes back to Accept.
Admit(p) ==
    /\ loopPc[p] = "select"
    /\ SemHasRoom(p)
    /\ connSem'  = [connSem EXCEPT ![p] = @ + 1]
    /\ wg'       = [wg EXCEPT ![p] = @ + 1]
    /\ cst'      = [cst EXCEPT ![loopConn[p]] = "admitted"]
    /\ hpc'      = [hpc EXCEPT ![loopConn[p]] = "spawned"]
    /\ loopConn' = [loopConn EXCEPT ![p] = 0]
    /\ loopPc'   = [loopPc EXCEPT ![p] = "accept"]
    /\ UNCHANGED <<cliVars, netVars, osVars, LocalPort, listener, done,
                   stopPc, mgrVars, thrVars, cproxy, local, remote, l2r, r2l>>

\* A blocking acquire: at a full gate the loop waits for a slot.
RejectWaits(p) ==
    /\ loopPc[p] = "select"
    /\ ~SemHasRoom(p)
    /\ FALSE
    /\ UNCHANGED vars

\* A default case that counts the connection it closes as work.
RejectCounts(p) ==
    /\ loopPc[p] = "select"
    /\ ~SemHasRoom(p)
    /\ wg'       = [wg EXCEPT ![p] = @ + 1]
    /\ cst'      = [cst EXCEPT ![loopConn[p]] = "rejected"]
    /\ local'    = [local EXCEPT ![loopConn[p]] = "closed"]
    /\ loopConn' = [loopConn EXCEPT ![p] = 0]
    /\ loopPc'   = [loopPc EXCEPT ![p] = "accept"]
    /\ UNCHANGED <<cliVars, netVars, osVars, LocalPort, listener, done, connSem, stopPc,
                   mgrVars, thrVars, cproxy, hpc, remote, l2r, r2l>>

\* select default: conn.Close()
Reject(p) ==
    /\ loopPc[p] = "select"
    /\ ~SemHasRoom(p)
    /\ cst'      = [cst EXCEPT ![loopConn[p]] = "rejected"]
    /\ local'    = [local EXCEPT ![loopConn[p]] = "closed"]
    /\ loopConn' = [loopConn EXCEPT ![p] = 0]
    /\ loopPc'   = [loopPc EXCEPT ![p] = "accept"]
    /\ UNCHANGED <<cliVars, netVars, osVars, LocalPort, listener, done, wg, connSem, stopPc,
                   mgrVars, thrVars, cproxy, hpc, remote, l2r, r2l>>

----------------------------------------------------------------------------
(* handleConnection *)

\* A handler that forgets to close the local connection.
CloseLocalForgets(c) == UNCHANGED local

\* A close that takes the Forwarder's other local connections with it.
CloseLocalOfAll(c) ==
    local' = [d \in Conns |-> IF cproxy[d] = cproxy[c] /\ local[d] = "open"
                               THEN "closed" ELSE local[d]]

\* The deferred func's first statement, local.Close().
CloseLocal(c) == local' = [local EXCEPT ![c] = "closed"]

\* Lines 89-100: the handler goroutine runs its first statements; it
\* registers the deferred func, sets the deadline of the local conn counted
\* from this moment (line 97) and begins to dial.
HandlerStart(c) ==
    /\ hpc[c] = "spawned"
    /\ began' = [began EXCEPT ![c] = now]
    /\ ldl'   = [ldl EXCEPT ![c] = Deadline(now)]
    /\ hpc'   = [hpc EXCEPT ![c] = "start"]
    /\ UNCHANGED <<cliVars, osVars, proxyVars, mgrVars, thrVars, cst, cproxy, local, remote,
                   l2r, r2l, now, rdl, lastCopy, dataVars>>

\* A dial-failure return that skips the receive from connSem.
DialFailKeepsSlot(c) ==
    /\ hpc[c] = "start"
    /\ CloseLocal(c)
    /\ hpc' = [hpc EXCEPT ![c] = "wgdone"]
    /\ UNCHANGED <<cliVars, netVars, osVars, proxyVars, mgrVars, thrVars, cst, cproxy, remote, l2r, r2l>>

\* Lines 100-104, dial fails: Dial returns an error
\* (refused, or DialTimeout elapsed), return; the deferred func closes local.
\* No remote connection exists and no copy goroutine is started.
DialFail(c) ==
    /\ hpc[c] = "start"
    /\ CloseLocal(c)
    /\ hpc' = [hpc EXCEPT ![c] = "release"]
    /\ UNCHANGED <<cliVars, netVars, osVars, proxyVars, mgrVars, thrVars, cst, cproxy, remote, l2r, r2l>>

\* Lines 100-129, dial succeeds: defer remote.Close(),
\* SetDeadline on remote, start the two copy goroutines.  The deadline of
\* the local conn is the one set before the dial.
DialOk(c) ==
    /\ hpc[c] = "start"
    /\ remote' = [remote EXCEPT ![c] = "open"]
    /\ rdl'    = [rdl EXCEPT ![c] = Deadline(now)]
    /\ lastCopy' = [lastCopy EXCEPT ![c] = now]
    /\ l2r'    = [l2r EXCEPT ![c] = "copy"]
    /\ r2l'    = [r2l EXCEPT ![c] = "copy"]
    /\ hpc'    = [hpc EXCEPT ![c] = "relay"]
    /\ UNCHANGED <<cliVars, osVars, proxyVars, mgrVars, thrVars, cst, cproxy, local, now,
                   began, ldl,
                   dataVars>>

\* A CloseWrite that closes the whole connection.
CloseWriteClosesAll(conn, c) == [conn EXCEPT ![c] = "closed"]

\* tc.CloseWrite(): the sending half of conn is shut down, the receiving
\* half stays as it is.
CloseWrite(conn, c) == [conn EXCEPT ![c] = "wshut"]

\* Lines 113-120: io.Copy(remote, local) returns (end of stream, reset or
\* deadline), CloseWrite on remote, done <- struct{}{}.
CopyL2RDone(c) ==
    /\ l2r[c] = "copy"
    /\ l2r' = [l2r EXCEPT ![c] = "fin"]
    /\ remote' = CloseWrite(remote, c)
    /\ UNCHANGED <<cliVars, netVars, osVars, proxyVars, mgrVars, thrVars, cst, cproxy, hpc, local, r2l>>

\* Lines 122-129: io.Copy(local, remote) returns, CloseWrite on local,
\* done <- struct{}{}.
CopyR2LDone(c) ==
    /\ r2l[c] = "copy"
    /\ r2l' = [r2l EXCEPT ![c] = "fin"]
    /\ local' = CloseWrite(local, c)
    /\ UNCHANGED <<cliVars, netVars, osVars, proxyVars, mgrVars, thrVars, cst, cproxy, hpc, remote, l2r>>

\* A handler that goes on after the first receive from done.
EitherDone(c) == l2r[c] = "fin" \/ r2l[c] = "fin"

\* Lines 132-133: <-done twice, so both copy goroutines have sent.
BothDone(c) == l2r[c] = "fin" /\ r2l[c] = "fin"

\* Lines 132-134 and the deferred calls up to local.Close(): both receives,
\* return, remote.Close(), local.Close().
HandlerReturn(c) ==
    /\ hpc[c] = "relay"
    /\ BothDone(c)
    /\ remote' = [remote EXCEPT ![c] = "closed"]
    /\ CloseLocal(c)
    /\ hpc'    = [hpc EXCEPT ![c] = "release"]
    /\ UNCHANGED <<cliVars, netVars, osVars, proxyVars, mgrVars, thrVars, cst, cproxy, l2r, r2l>>

\* Line 92: <-p.connSem, which needs an element in the channel.
ReleaseSlot(c) ==
    /\ hpc[c] = "release"
    /\ connSem[cproxy[c]] > 0
    /\ connSem' = [connSem EXCEPT ![cproxy[c]] = @ - 1]
    /\ hpc'     = [hpc EXCEPT ![c] = "wgdone"]
    /\ UNCHANGED <<cliVars, netVars, osVars, LocalPort, listener, done, wg, loopPc, loopConn, stopPc,
                   mgrVars, thrVars, cst, cproxy, local, remote, l2r, r2l>>

\* Line 93: p.wg.Done(), the handler goroutine ends.
HandlerWgDone(c) ==
    /\ hpc[c] = "wgdone"
    /\ wg'  = [wg EXCEPT ![cproxy[c]] = @ - 1]
    /\ hpc' = [hpc EXCEPT ![c] = "finished"]
    /\ UNCHANGED <<cliVars, netVars, osVars, LocalPort, listener, done, connSem, loopPc, loopConn, stopPc,
                   mgrVars, thrVars, cst, cproxy, local, remote, l2r, r2l>>

----------------------------------------------------------------------------
(* The two io.Copy goroutines of a handler, byte by byte *)

\* The first n elements of s, and the rest.
Drop(s, n) == SubSeq(s, n + 1, Len(s))


\* One turn of io.Copy's loop moves the n bytes its Read returned, as read.
Chunk(s, n) == SubSeq(s, 1, n)

\* Handlers that keep the remote conn in one shared place.
RemoteShared(c) == 1

\* The remote conn the goroutines of the handler of c use: the handler's own
\* variable `remote` (line 101), captured by both closures.
RemoteOf(c) == c
\* The local conn they use: the handler's parameter `local`.
LocalOf(c) == c

\* A Read or Write on a conn whose deadline has passed fails.
Expired(dl) == now >= dl

\* io.Copy(remote, local), one turn: Read on local returns n bytes, Write
\* puts them on remote.
CopyL2RChunk(c) ==
    /\ l2r[c] = "copy"
    /\ local[LocalOf(c)] \in {"open", "wshut"}
    /\ remote[RemoteOf(c)] = "open"
    /\ ~Expired(ldl[c]) /\ ~Expired(rdl[c])
    /\ \E n \in 1..Len(lbuf[LocalOf(c)]) :
         /\ rgot' = [rgot EXCEPT ![RemoteOf(c)] = @ \o Chunk(lbuf[LocalOf(c)], n)]
         /\ lbuf' = [lbuf EXCEPT ![LocalOf(c)] = Drop(@, n)]
    /\ lastCopy' = [lastCopy EXCEPT ![c] = now]
    /\ UNCHANGED <<cliVars, osVars, proxyVars, mgrVars, thrVars, connVars, now, began, ldl, rdl,
                   wrote, cfin, becho, bfin, rbuf, cgot>>

\* io.Copy(remote, local) returns on end of stream: the client has shut
\* down its side and every byte it sent was read.  Then lines 116-119.
CopyL2REof(c) ==
    /\ lbuf[LocalOf(c)] = <<>> /\ cfin[c]
    /\ ~Expired(ldl[c])
    /\ CopyL2RDone(c)

\* How many bytes io.Copy has taken from buf when it returns on a timeout:
\* none when its Read finds the deadline dl of the source passed, those of
\* one Read when the Write of them then fails.
TakenBeforeTimeout(dl, buf) == IF Expired(dl) THEN {0} ELSE 1..Len(buf)

\* io.Copy(remote, local) returns on a timeout.  Either the Read on local
\* finds the deadline of local passed; or the Read returns bytes and the
\* Write on remote finds the deadline of remote passed: the bytes read are
\* gone.  Then lines 116-119.
CopyL2RTimeout(c) ==
    /\ l2r[c] = "copy"
    /\ Expired(ldl[c]) \/ (lbuf[LocalOf(c)] # <<>> /\ Expired(rdl[c]))
    /\ \E n \in TakenBeforeTimeout(ldl[c], lbuf[LocalOf(c)]) :
         lbuf' = [lbuf EXCEPT ![LocalOf(c)] = Drop(@, n)]
    /\ l2r' = [l2r EXCEPT ![c] = "fin"]
    /\ remote' = CloseWrite(remote, c)
    /\ UNCHANGED <<cliVars, osVars, proxyVars, mgrVars, thrVars, cst, cproxy, hpc, local,
                   r2l, timeVars, wrote, cfin, rgot, becho, bfin, rbuf, cgot>>

\* io.Copy(local, remote), one turn.
CopyR2LChunk(c) ==
    /\ r2l[c] = "copy"
    /\ remote[RemoteOf(c)] \in {"open", "wshut"}
    /\ local[LocalOf(c)] = "open"
    /\ ~Expired(rdl[c]) /\ ~Expired(ldl[c])
    /\ \E n \in 1..Len(rbuf[RemoteOf(c)]) :
         /\ cgot' = [cgot EXCEPT ![LocalOf(c)] = @ \o Chunk(rbuf[RemoteOf(c)], n)]
         /\ rbuf' = [rbuf EXCEPT ![RemoteOf(c)] = Drop(@, n)]
    /\ lastCopy' = [lastCopy EXCEPT ![c] = now]
    /\ UNCHANGED <<cliVars, osVars, proxyVars, mgrVars, thrVars, connVars, now, began, ldl, rdl,
                   wrote, cfin, lbuf, rgot, becho, bfin>>

\* io.Copy(local, remote) returns on end of stream: the backend has closed
\* and every byte it sent was read.  Then lines 125-128.
CopyR2LEof(c) ==
    /\ rbuf[RemoteOf(c)] = <<>> /\ bfin[c]
    /\ ~Expired(rdl[c])
    /\ CopyR2LDone(c)

\* io.Copy(local, remote) returns on a timeout.  Either the Read on remote
\* finds the deadline of remote passed; or the Read returns bytes and the
\* Write on local finds the deadline of local, which was set before the
\* dial, passed: the bytes read are gone.  Then lines 125-128.
CopyR2LTimeout(c) ==
    /\ r2l[c] = "copy"
    /\ Expired(rdl[c]) \/ (rbuf[RemoteOf(c)] # <<>> /\ Expired(ldl[c]))
    /\ \E n \in TakenBeforeTimeout(rdl[c], rbuf[RemoteOf(c)]) :
         rbuf' = [rbuf EXCEPT ![RemoteOf(c)] = Drop(@, n)]
    /\ r2l' = [r2l EXCEPT ![c] = "fin"]
    /\ local' = CloseWrite(local, c)
    /\ UNCHANGED <<cliVars, osVars, proxyVars, mgrVars, thrVars, cst, cproxy, hpc, remote,
                   l2r, timeVars, wrote, cfin, lbuf, rgot, becho, bfin, cgot>>

----------------------------------------------------------------------------
(* Manager *)

\* A caller that goes on without taking the mutex.
LockForgets(t) == mu' = mu

\* m.mu.Lock()
Lock(t)   == mu = 0 /\ mu' = t
\* the deferred m.mu.Unlock()
Unlock(t) == mu = t /\ mu' = 0

\* Manager.Add, line 149: take the mutex.  (A caller starts an Add only
\* while New still has a Proxy object to hand out.)
AddLockStep(t, port) ==
    /\ tpc[t] = "idle"
    /\ \E p \in Proxies : Unallocated(p)
    /\ Lock(t)
    /\ tpc'   = [tpc EXCEPT ![t] = "add"]
    /\ tport' = [tport EXCEPT ![t] = port]
    /\ UNCHANGED <<cfgVars, netVars, osVars, proxyVars, proxies, tproxy, tidx, connVars>>
\* Manager.Add called by a caller other than the proxy command.
AddLock(t, port) == AddLockStep(t, port) /\ UNCHANGED cmdVars

\* Manager.Add, lines 152-153: proxy := New(...); err := proxy.Start()
AddStart(t) ==
    /\ tpc[t] = "add"
    /\ \E p \in Proxies :
         /\ Fresh(p)
         /\ New(p, tport[t])
         /\ Start(p, tport[t])
         /\ tproxy' = [tproxy EXCEPT ![t] = p]
    /\ tpc' = [tpc EXCEPT ![t] = IF ListenErr(tport[t]) THEN "add_err" ELSE "add_ok"]
    /\ UNCHANGED <<cliVars, netVars, done, connSem, loopConn, stopPc, mgrVars, tport, tidx, connVars>>

\* An Add that appends before it looks at the error.
AddFailAppends(t) ==
    /\ tpc[t] = "add_err"
    /\ Unlock(t)
    /\ proxies' = Append(proxies, tproxy[t])
    /\ tpc'    = [tpc EXCEPT ![t] = "idle"]
    /\ tproxy' = [tproxy EXCEPT ![t] = 0]
    /\ tport'  = [tport EXCEPT ![t] = 0]
    /\ UNCHANGED <<cliVars, netVars, osVars, proxyVars, tidx, connVars>>

\* Manager.Add, lines 153-155: return err; the mutex is released.  The
\* Proxy that failed to start is garbage: nothing references it.
AddFailStep(t) ==
    /\ tpc[t] = "add_err"
    /\ Unlock(t)
    /\ LocalPort' = [LocalPort EXCEPT ![tproxy[t]] = 0]
    /\ tpc'    = [tpc EXCEPT ![t] = "idle"]
    /\ tproxy' = [tproxy EXCEPT ![t] = 0]
    /\ tport'  = [tport EXCEPT ![t] = 0]
    /\ UNCHANGED <<cfgVars, netVars, osVars, listener, done, wg, connSem, loopPc, loopConn, stopPc,
                   proxies, tidx, connVars>>
\* Manager.Add returns the error to a caller other than the proxy command.
AddFail(t) == AddFailStep(t) /\ UNCHANGED cmdVars

\* An Add that returns nil without appending.
AddForgetsAppend(t) ==
    /\ tpc[t] = "add_ok"
    /\ proxies' = proxies
    /\ Unlock(t)
    /\ tpc'    = [tpc EXCEPT ![t] = "idle"]
    /\ tproxy' = [tproxy EXCEPT ![t] = 0]
    /\ tport'  = [tport EXCEPT ![t] = 0]
    /\ UNCHANGED <<cliVars, netVars, osVars, proxyVars, tidx, connVars>>

\* Manager.Add, lines 157-158: append, return nil; the mutex is released.
AddAppendStep(t) ==
    /\ tpc[t] = "add_ok"
    /\ proxies' = Append(proxies, tproxy[t])
    /\ Unlock(t)
    /\ tpc'    = [tpc EXCEPT ![t] = "idle"]
    /\ tproxy' = [tproxy EXCEPT ![t] = 0]
    /\ tport'  = [tport EXCEPT ![t] = 0]
    /\ UNCHANGED <<cfgVars, netVars, osVars, proxyVars, tidx, connVars>>
\* Manager.Add returns nil to a caller other than the proxy command.
AddAppend(t) == AddAppendStep(t) /\ UNCHANGED cmdVars

\* Manager.StopAll, line 163: take the mutex, start the range.
StopAllLockStep(t) ==
    /\ tpc[t] = "idle"
    /\ Lock(t)
    /\ tpc'  = [tpc EXCEPT ![t] = "range"]
    /\ tidx' = [tidx EXCEPT ![t] = 1]
    /\ UNCHANGED <<cfgVars, netVars, osVars, proxyVars, proxies, tproxy, tport, connVars>>
\* Manager.StopAll called by a caller other than the proxy command.
StopAllLock(t) == StopAllLockStep(t) /\ UNCHANGED cmdVars

\* A range that stops after the first member.
RangeOverAfterFirst(t) == tidx[t] > Len(proxies) \/ tidx[t] > 1

\* for _, p := range m.proxies has no member left.
RangeOver(t) == tidx[t] > Len(proxies)

\* Manager.StopAll, lines 166-167: the next p of the range; p.Stop() begins
\* with close(p.done).
StopAllNext(t) ==
    /\ tpc[t] = "range"
    /\ ~RangeOver(t)
    /\ StopSignal(proxies[tidx[t]])
    /\ tproxy' = [tproxy EXCEPT ![t] = proxies[tidx[t]]]
    /\ tpc'    = [tpc EXCEPT ![t] = "stop"]
    /\ UNCHANGED <<cliVars, netVars, osVars, LocalPort, listener, wg, connSem, loopPc, loopConn,
                   mgrVars, tport, tidx, connVars>>

\* p.Stop() inside StopAll: the listener is closed.
StopAllClose(t) ==
    /\ tpc[t] = "stop"
    /\ StopClose(tproxy[t])
    /\ UNCHANGED <<cliVars, netVars, LocalPort, done, wg, connSem, loopPc, loopConn,
                   mgrVars, thrVars, cproxy, hpc, local, remote, l2r, r2l>>

\* p.Stop() inside StopAll: wg.Wait() returns, Stop returns, the range goes on.
StopAllWait(t) ==
    /\ tpc[t] = "stop"
    /\ StopWait(tproxy[t])
    /\ tpc'    = [tpc EXCEPT ![t] = "range"]
    /\ tidx'   = [tidx EXCEPT ![t] = @ + 1]
    /\ tproxy' = [tproxy EXCEPT ![t] = 0]
    /\ UNCHANGED <<cliVars, netVars, osVars, LocalPort, listener, done, wg, connSem, loopPc, loopConn,
                   mgrVars, tport, connVars>>

\* A StopAll that returns without clearing the slice.
StopAllKeepsMembers(t) ==
    /\ tpc[t] = "range"
    /\ RangeOver(t)
    /\ proxies' = proxies
    /\ Unlock(t)
    /\ tpc'  = [tpc EXCEPT ![t] = "idle"]
    /\ tidx' = [tidx EXCEPT ![t] = 0]
    /\ UNCHANGED <<cliVars, netVars, osVars, proxyVars, tproxy, tport, connVars>>

\* Manager.StopAll, line 169: the range is over, m.proxies = nil, return;
\* the mutex is released.
StopAllClearStep(t) ==
    /\ tpc[t] = "range"
    /\ RangeOver(t)
    /\ proxies' = <<>>
    /\ Unlock(t)
    /\ tpc'  = [tpc EXCEPT ![t] = "idle"]
    /\ tidx' = [tidx EXCEPT ![t] = 0]
    /\ UNCHANGED <<cfgVars, netVars, osVars, proxyVars, tproxy, tport, connVars>>
\* Manager.StopAll returns to a caller other than the proxy command.
StopAllClear(t) == StopAllClearStep(t) /\ UNCHANGED cmdVars

----------------------------------------------------------------------------
(* Environment: clients and other programs of the host *)

\* A client connects to the local port of p: the kernel completes the
\* handshake and queues the connection.  Clients are taken in order.
ClientConnect(c, p) ==
    /\ cst[c] = "idle"
    /\ \A d \in Conns : d < c => cst[d] # "idle"
    /\ listener[p] = "open"
    /\ cst'    = [cst EXCEPT ![c] = "backlog"]
    /\ cproxy' = [cproxy EXCEPT ![c] = p]
    /\ UNCHANGED <<cliVars, netVars, osVars, proxyVars, mgrVars, thrVars, hpc, local, remote, l2r, r2l>>

\* Another listener of the host binds a free port (what the tests do to
\* see that a port was released).
ExtBind(port) ==
    /\ portOwner[port] = "free"
    /\ portOwner' = [portOwner EXCEPT ![port] = "ext"]
    /\ UNCHANGED <<cliVars, netVars, proxyVars, mgrVars, thrVars, connVars>>

\* ... and closes it.
ExtClose(port) ==
    /\ portOwner[port] = "ext"
    /\ portOwner' = [portOwner EXCEPT ![port] = "free"]
    /\ UNCHANGED <<cliVars, netVars, proxyVars, mgrVars, thrVars, connVars>>

\* The client writes one more byte of its payload; the kernel delivers it
\* to the local conn of the proxy (to the backlogged connection before the
\* accept).
ClientWrite(c, b) ==
    /\ cst[c] \in {"backlog", "accepted", "admitted"}
    /\ local[c] # "closed"
    /\ ~cfin[c]
    /\ Len(wrote[c]) < MaxLen
    /\ wrote' = [wrote EXCEPT ![c] = Append(@, b)]
    /\ lbuf'  = [lbuf EXCEPT ![c] = Append(@, b)]
    /\ UNCHANGED <<cliVars, osVars, proxyVars, mgrVars, thrVars, connVars, timeVars,
                   cfin, rgot, becho, bfin, rbuf, cgot>>

\* The client shuts down its sending side (or closes): end of its stream.
ClientShut(c) ==
    /\ cst[c] \in {"backlog", "accepted", "admitted"}
    /\ ~cfin[c]
    /\ cfin' = [cfin EXCEPT ![c] = TRUE]
    /\ UNCHANGED <<cliVars, osVars, proxyVars, mgrVars, thrVars, connVars, timeVars,
                   wrote, lbuf, rgot, becho, bfin, rbuf, cgot>>

\* The echo backend (startEchoServer of the tests: io.Copy(conn, conn))
\* sends back what it has received and not yet sent back.
BackendEcho(c) ==
    /\ remote[c] \in {"open", "wshut"}
    /\ ~bfin[c]
    /\ becho[c] < Len(rgot[c])
    /\ rbuf'  = [rbuf EXCEPT ![c] = @ \o Drop(rgot[c], becho[c])]
    /\ becho' = [becho EXCEPT ![c] = Len(rgot[c])]
    /\ UNCHANGED <<cliVars, osVars, proxyVars, mgrVars, thrVars, connVars, timeVars,
                   wrote, cfin, lbuf, rgot, bfin, cgot>>

\* The echo backend reads end of stream (the proxy shut down the sending
\* half of remote and all was echoed, or closed remote) and closes.
BackendClose(c) ==
    /\ ~bfin[c]
    /\ \/ remote[c] = "wshut" /\ becho[c] = Len(rgot[c])
       \/ remote[c] = "closed"
    /\ bfin' = [bfin EXCEPT ![c] = TRUE]
    /\ UNCHANGED <<cliVars, osVars, proxyVars, mgrVars, thrVars, connVars, timeVars,
                   wrote, cfin, lbuf, rgot, becho, rbuf, cgot>>

\* A backend that has no more to send shuts down its sending side before
\* the proxy does, and keeps receiving.
BackendShut(c) ==
    /\ ~bfin[c]
    /\ remote[c] = "open"
    /\ bfin' = [bfin EXCEPT ![c] = TRUE]
    /\ UNCHANGED <<cliVars, osVars, proxyVars, mgrVars, thrVars, connVars, timeVars,
                   wrote, cfin, lbuf, rgot, becho, rbuf, cgot>>

\* A dial returns within DialTimeout: no handler is still dialing at time t.
DialsOverBy(t) == \A c \in Conns : hpc[c] = "start" => t <= began[c] + DialTimeout

\* The instants the clock stops at: a Quantum on, the end of a dial that
\* takes its whole DialTimeout, and each deadline of a running copy (the
\* two deadlines of a connection differ by the time its dial took, lines
\* 97 and 108).
NextInstants ==
    {now + Quantum}
    \cup {began[c] + DialTimeout : c \in {d \in Conns : hpc[d] = "start"}}
    \cup {ldl[c] : c \in {d \in Conns : l2r[d] = "copy" \/ r2l[d] = "copy"}}
    \cup {rdl[c] : c \in {d \in Conns : l2r[d] = "copy" \/ r2l[d] = "copy"}}

\* Time passes, during a dial too, up to the first of these instants, and
\* no dial lasts beyond DialTimeout.
Tick ==
    \E t \in NextInstants :
        /\ now < t /\ t <= MaxTime
        /\ \A u \in NextInstants : now < u => t <= u
        /\ DialsOverBy(t)
        /\ now' = t
        /\ UNCHANGED <<cliVars, osVars, proxyVars, mgrVars, thrVars, connVars, began, ldl, rdl,
                       lastCopy, dataVars>>

\* The handler of c has a step to take that waits neither for a peer nor
\* for the clock: its first statements, the returns after both copies, the
\* release of the slot, wg.Done().
Pending(c) == hpc[c] \in {"spawned", "release", "wgdone"} \/ (hpc[c] = "relay" /\ BothDone(c))

\* A copy goroutine of c would be blocked at time t in a Read whose
\* deadline has passed: io.Copy(remote, local) reads local, and
\* io.Copy(local, remote) reads remote.
CopyOverdue(c, t) ==
    \/ l2r[c] = "copy" /\ t > ldl[c]
    \/ r2l[c] = "copy" /\ t > rdl[c]

\* Time passes for goroutines that run as soon as they can: by DialTimeout
\* at a time, and never past the moment at which a dial or a blocked Read
\* times out or while a handler has a step of its own to take.
Elapse ==
    /\ now + DialTimeout <= MaxTime
    /\ DialsOverBy(now + DialTimeout)
    /\ \A c \in Conns : ~Pending(c) /\ ~CopyOverdue(c, now + DialTimeout)
    /\ now' = now + DialTimeout
    /\ UNCHANGED <<cliVars, osVars, proxyVars, mgrVars, thrVars, connVars, began, ldl, rdl,
                   lastCopy, dataVars>>

----------------------------------------------------------------------------
(* The proxy command, runProxy *)

\* The goroutine of the command: the only caller of its Manager.
Cmd == 1
\* What cfg.GetPorts(name) returns: the ports the config lists for the
\* container, in its order; not empty.  Load has validated the config, and
\* ValidatePorts refuses a list that names a port twice.
PortLists ==
    {l \in UNION {[1..n -> Ports] : n \in 1..MaxProxies} :
        \A i, j \in DOMAIN l : l[i] = l[j] => i = j}

\* runProxy, lines 291-312: the container runs, it has an IP and ports;
\* manager := proxy.NewManager().
CmdStart(ports) ==
    /\ cmdPc = "none"
    /\ cmdPorts' = ports
    /\ cmdIdx'   = 1
    /\ cmdPc'    = "add"
    /\ UNCHANGED <<osVars, proxyVars, mgrVars, thrVars, connVars, netVars, sigChan, cfgVars>>

\* Line 316: manager.Add(port, ip, port) for the next port of the range.
CmdAdd ==
    /\ cmdPc = "add"
    /\ cmdIdx <= Len(cmdPorts)
    /\ AddLockStep(Cmd, cmdPorts[cmdIdx])
    /\ cmdPc' = "in_add"
    /\ UNCHANGED <<cmdPorts, cmdIdx, sigChan>>

\* Lines 316-320: Add returned nil; the mapping is printed and the range
\* goes on.
CmdAddOk ==
    /\ cmdPc = "in_add"
    /\ AddAppendStep(Cmd)
    /\ cmdIdx' = cmdIdx + 1
    /\ cmdPc'  = "add"
    /\ UNCHANGED <<cmdPorts, sigChan>>

\* A command that returns the error of Add as it is.
CmdAddErrReturns ==
    /\ cmdPc = "in_add"
    /\ AddFailStep(Cmd)
    /\ cmdPc' = "returned_err"
    /\ UNCHANGED <<cmdPorts, cmdIdx, sigChan>>

\* Lines 316-317: Add returned an error; the command goes to clean up.
CmdAddErr ==
    /\ cmdPc = "in_add"
    /\ AddFailStep(Cmd)
    /\ cmdPc' = "cleanup"
    /\ UNCHANGED <<cmdPorts, cmdIdx, sigChan>>

\* Line 317: manager.StopAll() after the failed Add.
CmdCleanup ==
    /\ cmdPc = "cleanup"
    /\ StopAllLockStep(Cmd)
    /\ cmdPc' = "in_cleanup"
    /\ UNCHANGED <<cmdPorts, cmdIdx, sigChan>>

\* Lines 317-318: StopAll returned; the command returns the error.
CmdReturnErr ==
    /\ cmdPc = "in_cleanup"
    /\ StopAllClearStep(Cmd)
    /\ cmdPc' = "returned_err"
    /\ UNCHANGED <<cmdPorts, cmdIdx, sigChan>>

\* Lines 321-328: every port has its Forwarder; sigChan is made and
\* registered for SIGINT and SIGTERM; the command blocks in <-sigChan.
CmdNotify ==
    /\ cmdPc = "add"
    /\ cmdIdx > Len(cmdPorts)
    /\ cmdPc' = "wait"
    /\ UNCHANGED <<osVars, proxyVars, mgrVars, thrVars, connVars, netVars,
                   cmdPorts, cmdIdx, sigChan, cfgVars>>

\* A command that does not wait for the signal.
SignalledAlways == TRUE

\* <-sigChan can return: a signal is in the channel.
Signalled == sigChan > 0

\* Lines 328-331: a signal is received from sigChan; manager.StopAll().
CmdStop ==
    /\ cmdPc = "wait"
    /\ Signalled
    /\ sigChan' = 0
    /\ StopAllLockStep(Cmd)
    /\ cmdPc' = "in_stop"
    /\ UNCHANGED <<cmdPorts, cmdIdx>>

\* Lines 331-333: StopAll returned; the command returns nil.
CmdReturnNil ==
    /\ cmdPc = "in_stop"
    /\ StopAllClearStep(Cmd)
    /\ cmdPc' = "returned_nil"
    /\ UNCHANGED <<cmdPorts, cmdIdx, sigChan>>

\* SIGINT or SIGTERM once signal.Notify has registered sigChan: the runtime
\* puts it into the channel, which has room for one.
Signal ==
    /\ cmdPc \in {"wait", "in_stop"}
    /\ sigChan = 0
    /\ sigChan' = 1
    /\ UNCHANGED <<osVars, proxyVars, mgrVars, thrVars, connVars, netVars,
                   cmdPc, cmdPorts, cmdIdx, cfgVars>>

\* SIGINT or SIGTERM before signal.Notify: the default disposition ends the
\* process.  Its goroutines are gone and the kernel closes its sockets;
\* nothing of the command runs any more.
SignalKills ==
    /\ cmdPc \in {"add", "in_add", "cleanup", "in_cleanup"}
    /\ cmdPc' = "killed"
    /\ portOwner' = [q \in Ports |-> IF portOwner[q] = "proxy" THEN "free" ELSE portOwner[q]]
    /\ listener'  = [p \in Proxies |-> IF listener[p] = "open" THEN "closed" ELSE listener[p]]
    /\ loopPc'    = [p \in Proxies |-> IF loopPc[p] = "none" THEN "none" ELSE "exited"]
    /\ loopConn'  = [p \in Proxies |-> 0]
    /\ wg'        = [p \in Proxies |-> 0]
    /\ connSem'   = [p \in Proxies |-> 0]
    /\ tpc'       = [t \in Threads |-> "idle"]
    /\ mu'        = 0
    /\ cst'       = [c \in Conns |-> IF cst[c] \in {"backlog", "accepted"} THEN "dropped" ELSE cst[c]]
    /\ hpc'       = [c \in Conns |-> IF hpc[c] = "none" THEN "none" ELSE "finished"]
    /\ local'     = [c \in Conns |-> IF local[c] \in {"open", "wshut"} THEN "closed" ELSE local[c]]
    /\ remote'    = [c \in Conns |-> IF remote[c] \in {"open", "wshut"} THEN "closed" ELSE remote[c]]
    /\ UNCHANGED <<LocalPort, done, stopPc, proxies, tproxy, tport, tidx, cproxy, l2r, r2l,
                   netVars, cmdPorts, cmdIdx, sigChan, cfgVars>>

----------------------------------------------------------------------------
(* Commands that load, modify and save containers.yaml *)

\* Config.HasContainer
HasContainer(cfg, n) == Container(n) \in cfg
\* Config.AddContainer: the entry is replaced by one without snapshots.
AddContainer(cfg, n) == (cfg \ EntriesOf(n)) \cup {Container(n)}
\* Config.RemoveContainer
RemoveContainer(cfg, n) == cfg \ EntriesOf(n)
\* Config.AddSnapshot: the container's entry is written back, so it exists
\* afterwards.
AddSnapshot(cfg, e) == cfg \cup {Container(e[1]), e}
\* Config.RemoveSnapshot
RemoveSnapshot(cfg, e) == IF HasContainer(cfg, e[1]) THEN cfg \ {e} ELSE cfg

\* Load returns a config, not nil: containers.yaml exists.
ProjectFound(cfg) == Project \in cfg

\* What the command checks on the config it loaded before it goes on: a
\* project exists (requireProjectWithLock), the source exists
\* (requireContainerWithLock), the new name does not.
Accepts(op, cfg) ==
    /\ ProjectFound(cfg)
    /\ CASE op.kind = "create"          -> ~HasContainer(cfg, op.name)
         [] op.kind = "clone"           -> HasContainer(cfg, op.src) /\ ~HasContainer(cfg, op.name)
         [] op.kind = "snapshot_create" -> HasContainer(cfg, op.name)
         [] op.kind = "snapshot_delete" -> HasContainer(cfg, op.name)
         [] OTHER                       -> TRUE

\* The modification the command makes in memory before its first Save.
Modify(op, cfg) ==
    CASE op.kind \in {"create", "clone"} -> AddContainer(cfg, op.name)
      [] op.kind = "snapshot_create"     -> AddSnapshot(cfg, UserSnapshot(op.name))
      [] op.kind = "snapshot_delete"     -> RemoveSnapshot(cfg, UserSnapshot(op.name))
      [] OTHER                           -> RemoveContainer(cfg, op.name)

\* The command starts: its arguments are valid names.
CmdBegin(p, op) ==
    /\ ppc[p] = "none"
    /\ ppc' = [ppc EXCEPT ![p] = "lock"]
    /\ pop' = [pop EXCEPT ![p] = op]
    /\ UNCHANGED <<osVars, proxyVars, mgrVars, thrVars, connVars, netVars, cmdVars,
                   file, held, pcfg>>

\* A flock that is granted whoever holds the lock.
FlockFreeAlways == TRUE

\* flock(LOCK_EX|LOCK_NB) succeeds: no other open file description holds
\* the lock.
FlockFree == held = {}

\* AcquireLock: the lock is granted.
Flock(p) ==
    /\ ppc[p] = "lock"
    /\ FlockFree
    /\ held' = held \cup {p}
    /\ ppc'  = [ppc EXCEPT ![p] = "load"]
    /\ UNCHANGED <<osVars, proxyVars, mgrVars, thrVars, connVars, netVars, cmdVars,
                   file, pop, pcfg>>

\* AcquireLock: the lock was busy until the deadline; the command fails.
LockTimeout(p) ==
    /\ ppc[p] = "lock"
    /\ ~FlockFree
    /\ ppc' = [ppc EXCEPT ![p] = "failed"]
    /\ UNCHANGED <<osVars, proxyVars, mgrVars, thrVars, connVars, netVars, cmdVars,
                   file, held, pop, pcfg>>

\* ConfigLock.Release
Release(p) == held' = held \ {p}

\* LoadWithLock: Load under the lock; the command's checks pass.
LoadOk(p) ==
    /\ ppc[p] = "load"
    /\ Accepts(pop[p], file)
    /\ pcfg' = [pcfg EXCEPT ![p] = file]
    /\ ppc'  = [ppc EXCEPT ![p] = "work"]
    /\ UNCHANGED <<osVars, proxyVars, mgrVars, thrVars, connVars, netVars, cmdVars,
                   file, held, pop>>

\* LoadWithLock: Load under the lock; a check fails, the lock is released
\* and the command returns the error.
LoadReject(p) ==
    /\ ppc[p] = "load"
    /\ ~Accepts(pop[p], file)
    /\ Release(p)
    /\ ppc' = [ppc EXCEPT ![p] = "failed"]
    /\ UNCHANGED <<osVars, proxyVars, mgrVars, thrVars, connVars, netVars, cmdVars,
                   file, pop, pcfg>>

\* The LXC operations of the command succeed.
WorkOk(p) ==
    /\ ppc[p] = "work"
    /\ ppc' = [ppc EXCEPT ![p] = "save"]
    /\ UNCHANGED <<osVars, proxyVars, mgrVars, thrVars, connVars, netVars, cmdVars,
                   file, held, pop, pcfg>>

\* An LXC operation fails (or remove finds the container neither in LXC
\* nor in the config): the command returns the error, the deferred Release
\* runs, nothing was saved.
WorkFail(p) ==
    /\ ppc[p] = "work"
    /\ Release(p)
    /\ ppc' = [ppc EXCEPT ![p] = "failed"]
    /\ UNCHANGED <<osVars, proxyVars, mgrVars, thrVars, connVars, netVars, cmdVars,
                   file, pop, pcfg>>

\* runRemove, lines 73-79: without --force the user answers no; the
\* command prints "Cancelled" and returns nil, the deferred Release runs,
\* nothing was deleted or saved.
RemoveCancel(p) ==
    /\ ppc[p] = "work"
    /\ pop[p].kind = "remove"
    /\ Release(p)
    /\ ppc' = [ppc EXCEPT ![p] = "done"]
    /\ UNCHANGED <<osVars, proxyVars, mgrVars, thrVars, connVars, netVars, cmdVars,
                   file, pop, pcfg>>

\* remove of a container that exists in LXC only: `if existsInConfig` is
\* false and nothing is saved.
Saves(op, cfg) == op.kind = "remove" => HasContainer(cfg, op.name)

\* The command modifies its config and saves it: containers.yaml is
\* replaced by the config in memory.  create and clone go on to the
\* initial snapshot, the others return.
Save(p) ==
    /\ ppc[p] = "save"
    /\ Saves(pop[p], pcfg[p])
    /\ pcfg' = [pcfg EXCEPT ![p] = Modify(pop[p], pcfg[p])]
    /\ file' = pcfg'[p]
    /\ ppc'  = [ppc EXCEPT ![p] =
                  IF pop[p].kind \in {"create", "clone"} THEN "resave" ELSE "release"]
    /\ UNCHANGED <<osVars, proxyVars, mgrVars, thrVars, connVars, netVars, cmdVars,
                   held, pop>>

\* remove has nothing to take out of the config.
SkipSave(p) ==
    /\ ppc[p] = "save"
    /\ ~Saves(pop[p], pcfg[p])
    /\ ppc' = [ppc EXCEPT ![p] = "release"]
    /\ UNCHANGED <<osVars, proxyVars, mgrVars, thrVars, connVars, netVars, cmdVars,
                   file, held, pop, pcfg>>

\* create and clone: the initial snapshot is taken, registered and saved.
Resave(p) ==
    /\ ppc[p] = "resave"
    /\ pcfg' = [pcfg EXCEPT ![p] = AddSnapshot(pcfg[p], InitialState(pop[p].name))]
    /\ file' = pcfg'[p]
    /\ ppc'  = [ppc EXCEPT ![p] = "release"]
    /\ UNCHANGED <<osVars, proxyVars, mgrVars, thrVars, connVars, netVars, cmdVars,
                   held, pop>>

\* create and clone: the initial snapshot could not be taken; a warning is
\* printed and nothing more is saved.
SnapshotWarn(p) ==
    /\ ppc[p] = "resave"
    /\ ppc' = [ppc EXCEPT ![p] = "release"]
    /\ UNCHANGED <<osVars, proxyVars, mgrVars, thrVars, connVars, netVars, cmdVars,
                   file, held, pop, pcfg>>

\* The command returns nil and the deferred lock.Release() runs.
Return(p) ==
    /\ ppc[p] = "release"
    /\ Release(p)
    /\ ppc' = [ppc EXCEPT ![p] = "done"]
    /\ UNCHANGED <<osVars, proxyVars, mgrVars, thrVars, connVars, netVars, cmdVars,
                   file, pop, pcfg>>

\* project create or project delete starts; neither takes the config lock.
ProjectBegin(p, op) ==
    /\ ppc[p] = "none"
    /\ ppc' = [ppc EXCEPT ![p] = "pload"]
    /\ pop' = [pop EXCEPT ![p] = op]
    /\ UNCHANGED <<osVars, proxyVars, mgrVars, thrVars, connVars, netVars, cmdVars,
                   file, held, pcfg>>

\* runProjectCreate, lines 107-113, and runProjectDelete, lines 171-177:
\* config.Load() without the lock.  create goes on when there is no
\* project, delete when there is one; otherwise the command fails.
ProjectLoad(p) ==
    /\ ppc[p] = "pload"
    /\ pcfg' = [pcfg EXCEPT ![p] = file]
    /\ ppc'  = [ppc EXCEPT ![p] =
                  IF pop[p].kind = "project_create"
                  THEN (IF ProjectFound(file) THEN "failed" ELSE "psave")
                  ELSE (IF ProjectFound(file) THEN "premove" ELSE "failed")]
    /\ UNCHANGED <<osVars, proxyVars, mgrVars, thrVars, connVars, netVars, cmdVars,
                   file, held, pop>>

\* runProjectCreate, lines 149-160: a config with no container is saved;
\* containers.yaml is replaced, whatever it holds by now.
ProjectSave(p) ==
    /\ ppc[p] = "psave"
    /\ pcfg' = [pcfg EXCEPT ![p] = {Project}]
    /\ file' = pcfg'[p]
    /\ ppc'  = [ppc EXCEPT ![p] = "done"]
    /\ UNCHANGED <<osVars, proxyVars, mgrVars, thrVars, connVars, netVars, cmdVars,
                   held, pop>>

\* runProjectDelete, lines 199-204: the user answers no; nothing changes.
ProjectCancel(p) ==
    /\ ppc[p] = "premove"
    /\ ppc' = [ppc EXCEPT ![p] = "done"]
    /\ UNCHANGED <<osVars, proxyVars, mgrVars, thrVars, connVars, netVars, cmdVars,
                   file, held, pop, pcfg>>

\* runProjectDelete, lines 207-238: the containers of the config it loaded
\* are deleted in LXC, then os.Remove(config.ConfigFile): the file is gone,
\* with whatever it holds by now; the call fails when the file is gone
\* already.
ProjectRemove(p) ==
    /\ ppc[p] = "premove"
    /\ file' = {}
    /\ ppc'  = [ppc EXCEPT ![p] = IF ProjectFound(file) THEN "done" ELSE "failed"]
    /\ UNCHANGED <<osVars, proxyVars, mgrVars, thrVars, connVars, netVars, cmdVars,
                   held, pop, pcfg>>

\* The process has exited; the terminal is free for the next command.
CmdEnd(p) ==
    /\ ppc[p] \in {"done", "failed"}
    /\ ppc'  = [ppc EXCEPT ![p] = "none"]
    /\ pop'  = [pop EXCEPT ![p] = NoOp]
    /\ pcfg' = [pcfg EXCEPT ![p] = {}]
    /\ UNCHANGED <<osVars, proxyVars, mgrVars, thrVars, connVars, netVars, cmdVars,
                   file, held>>

----------------------------------------------------------------------------

\* One Forwarder at a time under load: a single caller (as the proxy
\* command is) on a single port, the backend up or down, other programs
\* binding the port when it is free.
Caller   == {1}
CallPort == {1}

Next ==
    \/ \E t \in Caller, port \in CallPort : AddLock(t, port)
    \/ \E t \in Caller : AddStart(t)
    \/ \E t \in Caller : AddFail(t)
    \/ \E t \in Caller : AddAppend(t)
    \/ \E t \in Caller : StopAllLock(t)
    \/ \E t \in Caller : StopAllNext(t)
    \/ \E t \in Caller : StopAllClose(t)
    \/ \E t \in Caller : StopAllWait(t)
    \/ \E t \in Caller : StopAllClear(t)
    \/ \E p \in Proxies, c \in Conns : Accept(p, c)
    \/ \E p \in Proxies : AcceptError(p)
    \/ \E p \in Proxies : Admit(p)
    \/ \E c \in Conns : HandlerStart(c)
    \/ \E p \in Proxies : Reject(p)
    \/ \E c \in Conns : DialFail(c)
    \/ \E c \in Conns : DialOk(c)
    \/ \E c \in Conns : CopyL2RDone(c)
    \/ \E c \in Conns : CopyR2LDone(c)
    \/ \E c \in Conns : HandlerReturn(c)
    \/ \E c \in Conns : ReleaseSlot(c)
    \/ \E c \in Conns : HandlerWgDone(c)
    \/ \E c \in Clients, p \in Proxies : ClientConnect(c, p)
    \/ \E port \in CallPort : ExtBind(port)
    \/ \E port \in CallPort : ExtClose(port)

Spec == Init /\ [][Next]_vars

\* The Forwarder Set under concurrent callers on several ports.  The
\* remote target is unreachable (every dial fails) and no other program
\* binds the ports, so a bind fails only on a port a Forwarder holds;
\* three clients connect, to the same Forwarder or to different ones.
SetConns == {1, 2, 3}

NextSet ==
    \/ \E t \in Threads, port \in Ports : AddLock(t, port)
    \/ \E t \in Threads : AddStart(t)
    \/ \E t \in Threads : AddFail(t)
    \/ \E t \in Threads : AddAppend(t)
    \/ \E t \in Threads : StopAllLock(t)
    \/ \E t \in Threads : StopAllNext(t)
    \/ \E t \in Threads : StopAllClose(t)
    \/ \E t \in Threads : StopAllWait(t)
    \/ \E t \in Threads : StopAllClear(t)
    \/ \E p \in Proxies, c \in Conns : Accept(p, c)
    \/ \E p \in Proxies : AcceptError(p)
    \/ \E p \in Proxies : Admit(p)
    \/ \E c \in Conns : HandlerStart(c)
    \/ \E p \in Proxies : Reject(p)
    \/ \E c \in Conns : DialFail(c)
    \/ \E c \in Conns : ReleaseSlot(c)
    \/ \E c \in Conns : HandlerWgDone(c)
    \/ \E c \in SetConns, p \in Proxies : ClientConnect(c, p)

SpecSet == Init /\ [][NextSet]_vars

\* The gate under more clients than it admits: one Forwarder, never
\* stopped (an Add that finds its port held fails), the backend up, MaxConnectionsPerProxy + 2 clients that connect
\* one after the other and whose connections last as long as the peers like.
NextGate ==
    \/ \E t \in Caller, port \in CallPort : AddLock(t, port)
    \/ \E t \in Caller : AddStart(t)
    \/ \E t \in Caller : AddFail(t)
    \/ \E t \in Caller : AddAppend(t)
    \/ \E p \in Proxies, c \in Conns : Accept(p, c)
    \/ \E p \in Proxies : AcceptError(p)
    \/ \E p \in Proxies : Admit(p)
    \/ \E c \in Conns : HandlerStart(c)
    \/ \E p \in Proxies : Reject(p)
    \/ \E c \in Conns : DialOk(c)
    \/ \E c \in Conns : CopyL2RDone(c)
    \/ \E c \in Conns : CopyR2LDone(c)
    \/ \E c \in Conns : HandlerReturn(c)
    \/ \E c \in Conns : ReleaseSlot(c)
    \/ \E c \in Conns : HandlerWgDone(c)
    \/ \E c \in Conns, p \in Proxies : ClientConnect(c, p)

SpecGate == Init /\ [][NextGate]_vars

\* One connection relayed to an echo backend that is up, byte by byte and
\* under the clock: the client writes up to MaxLen bytes and shuts down
\* when it likes, the backend may stop sending before the client does, the
\* caller stops the set when it likes.
RelayConns == {1}

NextRelay ==
    \/ \E t \in Caller, port \in CallPort : AddLock(t, port)
    \/ \E t \in Caller : AddStart(t)
    \/ \E t \in Caller : AddFail(t)
    \/ \E t \in Caller : AddAppend(t)
    \/ \E t \in Caller : StopAllLock(t)
    \/ \E t \in Caller : StopAllNext(t)
    \/ \E t \in Caller : StopAllClose(t)
    \/ \E t \in Caller : StopAllWait(t)
    \/ \E t \in Caller : StopAllClear(t)
    \/ \E p \in Proxies, c \in Conns : Accept(p, c)
    \/ \E p \in Proxies : AcceptError(p)
    \/ \E p \in Proxies : Admit(p)
    \/ \E c \in Conns : HandlerStart(c)
    \/ \E c \in Conns : DialOk(c)
    \/ \E c \in Conns : CopyL2RChunk(c)
    \/ \E c \in Conns : CopyL2REof(c)
    \/ \E c \in Conns : CopyL2RTimeout(c)
    \/ \E c \in Conns : CopyR2LChunk(c)
    \/ \E c \in Conns : CopyR2LEof(c)
    \/ \E c \in Conns : CopyR2LTimeout(c)
    \/ \E c \in Conns : HandlerReturn(c)
    \/ \E c \in Conns : ReleaseSlot(c)
    \/ \E c \in Conns : HandlerWgDone(c)
    \/ \E c \in RelayConns, p \in Proxies : ClientConnect(c, p)
    \/ \E c \in RelayConns : \E b \in Bytes(c) : ClientWrite(c, b)
    \/ \E c \in RelayConns : ClientShut(c)
    \/ \E c \in Conns : BackendEcho(c)
    \/ \E c \in Conns : BackendClose(c)
    \/ \E c \in Conns : BackendShut(c)
    \/ Tick

SpecRelay == Init /\ [][NextRelay]_vars

\* One connection under a clock that the goroutines keep up with: the
\* dial takes up to DialTimeout and succeeds or fails, the client sends up
\* to MaxLen bytes (which bytes makes no difference to the clock), client
\* and backend shut down, close or stay silent as they like, the caller
\* stops the set when it likes.
StallConns == {1}

NextStall ==
    \/ \E t \in Caller, port \in CallPort : AddLock(t, port)
    \/ \E t \in Caller : AddStart(t)
    \/ \E t \in Caller : AddFail(t)
    \/ \E t \in Caller : AddAppend(t)
    \/ \E t \in Caller : StopAllLock(t)
    \/ \E t \in Caller : StopAllNext(t)
    \/ \E t \in Caller : StopAllClose(t)
    \/ \E t \in Caller : StopAllWait(t)
    \/ \E t \in Caller : StopAllClear(t)
    \/ \E p \in Proxies, c \in Conns : Accept(p, c)
    \/ \E p \in Proxies : AcceptError(p)
    \/ \E p \in Proxies : Admit(p)
    \/ \E c \in Conns : HandlerStart(c)
    \/ \E c \in Conns : DialFail(c)
    \/ \E c \in Conns : DialOk(c)
    \/ \E c \in Conns : CopyL2RChunk(c)
    \/ \E c \in Conns : CopyL2REof(c)
    \/ \E c \in Conns : CopyL2RTimeout(c)
    \/ \E c \in Conns : CopyR2LEof(c)
    \/ \E c \in Conns : CopyR2LTimeout(c)
    \/ \E c \in Conns : HandlerReturn(c)
    \/ \E c \in Conns : ReleaseSlot(c)
    \/ \E c \in Conns : HandlerWgDone(c)
    \/ \E c \in StallConns, p \in Proxies : ClientConnect(c, p)
    \/ \E c \in StallConns : ClientWrite(c, CHOOSE b \in Bytes(c) : TRUE)
    \/ \E c \in StallConns : ClientShut(c)
    \/ \E c \in Conns : BackendClose(c)
    \/ \E c \in Conns : BackendShut(c)
    \/ Elapse

SpecStall == Init /\ [][NextStall]_vars

\* Two connections relayed side by side to the echo backend, every
\* interleaving of their accepts, dials, copies and client writes; each
\* client writes bytes of its own, no deadline passes.
PairConns == {1, 2}

NextPair ==
    \/ \E t \in Caller, port \in CallPort : AddLock(t, port)
    \/ \E t \in Caller : AddStart(t)
    \/ \E t \in Caller : AddFail(t)
    \/ \E t \in Caller : AddAppend(t)
    \/ \E p \in Proxies, c \in Conns : Accept(p, c)
    \/ \E p \in Proxies : AcceptError(p)
    \/ \E p \in Proxies : Admit(p)
    \/ \E c \in Conns : HandlerStart(c)
    \/ \E c \in Conns : DialOk(c)
    \/ \E c \in Conns : CopyL2RChunk(c)
    \/ \E c \in Conns : CopyL2REof(c)
    \/ \E c \in Conns : CopyR2LChunk(c)
    \/ \E c \in Conns : CopyR2LEof(c)
    \/ \E c \in Conns : HandlerReturn(c)
    \/ \E c \in Conns : ReleaseSlot(c)
    \/ \E c \in Conns : HandlerWgDone(c)
    \/ \E c \in PairConns, p \in Proxies : ClientConnect(c, p)
    \/ \E c \in PairConns : \E b \in Bytes(c) : ClientWrite(c, b)
    \/ \E c \in PairConns : ClientShut(c)
    \/ \E c \in Conns : BackendEcho(c)
    \/ \E c \in Conns : BackendClose(c)

SpecPair == Init /\ [][NextPair]_vars

\* The proxy command on the ports of its container: one client, the remote
\* target unreachable, other programs binding ports, signals at any time.
CmdConns == {1}
NextCmd ==
    \/ \E ports \in PortLists : CmdStart(ports)
    \/ CmdAdd
    \/ AddStart(Cmd)
    \/ CmdAddOk
    \/ CmdAddErr
    \/ CmdCleanup
    \/ CmdReturnErr
    \/ CmdNotify
    \/ CmdStop
    \/ CmdReturnNil
    \/ StopAllNext(Cmd)
    \/ StopAllClose(Cmd)
    \/ StopAllWait(Cmd)
    \/ Signal
    \/ SignalKills
    \/ \E p \in Proxies, c \in CmdConns : Accept(p, c)
    \/ \E p \in Proxies : AcceptError(p)
    \/ \E p \in Proxies : Admit(p)
    \/ \E c \in CmdConns : HandlerStart(c)
    \/ \E c \in CmdConns : DialFail(c)
    \/ \E c \in CmdConns : ReleaseSlot(c)
    \/ \E c \in CmdConns : HandlerWgDone(c)
    \/ \E c \in CmdConns, p \in Proxies : ClientConnect(c, p)
    \/ \E port \in Ports : ExtBind(port)
    \/ \E port \in Ports : ExtClose(port)

SpecCmd == Init /\ [][NextCmd]_vars

\* Two terminals running locking commands on the same containers.yaml, one
\* command after the other in each.
NextLock ==
    \/ \E p \in Procs, op \in Ops : CmdBegin(p, op)
    \/ \E p \in Procs : Flock(p)
    \/ \E p \in Procs : LockTimeout(p)
    \/ \E p \in Procs : LoadOk(p)
    \/ \E p \in Procs : LoadReject(p)
    \/ \E p \in Procs : WorkOk(p)
    \/ \E p \in Procs : WorkFail(p)
    \/ \E p \in Procs : RemoveCancel(p)
    \/ \E p \in Procs : Save(p)
    \/ \E p \in Procs : SkipSave(p)
    \/ \E p \in Procs : Resave(p)
    \/ \E p \in Procs : SnapshotWarn(p)
    \/ \E p \in Procs : Return(p)
    \/ \E p \in Procs : CmdEnd(p)

SpecLock == Init /\ [][NextLock]_vars

\* The two terminals running any command that writes containers.yaml: the
\* locking commands, project create and project delete.
NextProject ==
    \/ NextLock
    \/ \E p \in Procs, op \in ProjectOps : ProjectBegin(p, op)
    \/ \E p \in Procs : ProjectLoad(p)
    \/ \E p \in Procs : ProjectSave(p)
    \/ \E p \in Procs : ProjectCancel(p)
    \/ \E p \in Procs : ProjectRemove(p)

SpecProject == Init /\ [][NextProject]_vars

\* The next step of the handler goroutine of c, which the Go scheduler runs
\* whenever it is possible.
HandlerStep(c) ==
    \/ HandlerStart(c) \/ DialFail(c) \/ DialOk(c) \/ HandlerReturn(c) \/ ReleaseSlot(c) \/ HandlerWgDone(c)

TypeOK ==
    /\ portOwner \in [Ports -> {"free", "proxy", "ext"}]
    /\ LocalPort \in [Proxies -> Ports \cup {0}]
    /\ listener \in [Proxies -> {"nil", "open", "closed"}]
    /\ done \in [Proxies -> BOOLEAN]
    /\ wg \in [Proxies -> 0..(Cardinality(Conns) + 1)]
    /\ connSem \in [Proxies -> 0..MaxConnectionsPerProxy]
    /\ loopPc \in [Proxies -> {"none", "accept", "select", "exited"}]
    /\ loopConn \in [Proxies -> Conns \cup {0}]
    /\ stopPc \in [Proxies -> {"none", "signalled", "closed", "returned"}]
    /\ mu \in Threads \cup {0}
    /\ tpc \in [Threads -> {"idle", "add", "add_ok", "add_err", "range", "stop"}]
    /\ cst \in [Conns -> {"idle", "backlog", "accepted", "admitted", "rejected", "dropped"}]
    /\ hpc \in [Conns -> {"none", "spawned", "start", "relay", "release", "wgdone", "finished"}]
    /\ local \in [Conns -> {"none", "open", "wshut", "closed"}]
    /\ remote \in [Conns -> {"none", "open", "wshut", "closed"}]
    /\ l2r \in [Conns -> {"none", "copy", "fin"}]
    /\ r2l \in [Conns -> {"none", "copy", "fin"}]
    /\ now \in 0..MaxTime
    /\ \A c \in Conns :
         /\ began[c] \in 0..MaxTime
         /\ ldl[c] \in 0..(MaxTime + ConnectionTimeout)
         /\ rdl[c] \in 0..(MaxTime + ConnectionTimeout)
         /\ lastCopy[c] \in 0..MaxTime
         /\ Len(wrote[c]) <= MaxLen
         /\ \A i \in 1..Len(wrote[c]) : wrote[c][i] \in Bytes(c)
         /\ becho[c] \in 0..Len(rgot[c])
         /\ cfin[c] \in BOOLEAN /\ bfin[c] \in BOOLEAN
    /\ cmdPc \in {"none", "add", "in_add", "cleanup", "in_cleanup", "wait", "in_stop",
                 "returned_nil", "returned_err", "killed"}
    /\ cmdPorts \in PortLists \cup {<<>>}
    /\ cmdIdx \in 0..(MaxProxies + 1)
    /\ sigChan \in 0..1
    /\ file \subseteq Entries
    /\ held \subseteq Procs
    /\ ppc \in [Procs -> {"none", "lock", "load", "work", "save", "resave", "release",
                          "pload", "psave", "premove", "done", "failed"}]
    /\ pop \in [Procs -> Ops \cup ProjectOps \cup {NoOp}]
    /\ \A p \in Procs : pcfg[p] \subseteq Entries

----------------------------------------------------------------------------
(* Claims *)

\* The handlers of p that hold a slot: admitted, slot not yet given back.
Holders(p) == {c \in Conns : cproxy[c] = p /\ hpc[c] \in {"spawned", "start", "relay", "release"}}
\* The connections of p that can exchange data: both ends open and the two
\* io.Copy goroutines, the only code that moves bytes, started.
Relaying(p) == {c \in Conns : cproxy[c] = p /\ hpc[c] = "relay"}
\* The handler of c saw its dial fail.
DialFailed(c) == hpc[c] \in {"release", "wgdone", "finished"} /\ remote[c] = "none"
\* The goroutines of p still running: its accept loop, handlers, copies.
LoopRunning(p) == loopPc[p] \in {"accept", "select"}
HandlersRunning(p) ==
    {c \in Conns : cproxy[c] = p /\
        (hpc[c] \in {"spawned", "start", "relay", "release", "wgdone"} \/ l2r[c] = "copy" \/ r2l[c] = "copy")}
\* The Proxy whose listener holds the port, if any.
PortHolders(port) == {q \in Proxies : listener[q] = "open" /\ LocalPort[q] = port}

\* C1: at most MaxConnectionsPerProxy handlers of a Forwarder hold a slot, at
\* most that many connections can exchange data, and a connection rejected at
\* the full gate is closed without a handler, a dial or a copy.
C1_AdmissionBound ==
    \A p \in Proxies :
        /\ connSem[p] <= MaxConnectionsPerProxy
        /\ Cardinality(Holders(p)) <= MaxConnectionsPerProxy
        /\ Cardinality(Relaying(p)) <= MaxConnectionsPerProxy
        /\ \A c \in Conns :
             /\ (l2r[c] # "none" \/ r2l[c] # "none" \/ remote[c] # "none") => cst[c] = "admitted"
             /\ cst[c] = "rejected" =>
                  /\ local[c] = "closed" /\ remote[c] = "none" /\ hpc[c] = "none"
                  /\ l2r[c] = "none" /\ r2l[c] = "none"

\* C1 witness: N+1 clients on one Forwarder, N relaying, one rejected.
C1_Witness ==
    \E p \in Proxies :
        /\ Cardinality(Relaying(p)) = MaxConnectionsPerProxy
        /\ \E c \in Conns : cproxy[c] = p /\ cst[c] = "rejected"

\* C2: once Stop has returned, the accept loop, every handler and every copy
\* goroutine of that Forwarder has ended.
C2_StopDrains ==
    \A p \in Proxies :
        stopPc[p] = "returned" =>
            /\ ~LoopRunning(p)
            /\ HandlersRunning(p) = {}
            /\ wg[p] = 0

\* C2 witness: Stop has returned on a Forwarder that had a handler relay.
C2_Witness ==
    \E p \in Proxies, c \in Conns :
        /\ stopPc[p] = "returned"
        /\ loopPc[p] = "exited"
        /\ cproxy[c] = p /\ hpc[c] = "finished" /\ remote[c] = "closed"

\* C3: once Stop has returned on a started Forwarder its listener is closed
\* and it no longer holds its port: the port is free, or bound anew by
\* someone else.
C3_StopReleasesPort ==
    \A p \in Proxies :
        (stopPc[p] = "returned" /\ listener[p] # "nil") =>
            /\ listener[p] = "closed"
            /\ portOwner[LocalPort[p]] = "proxy" => PortHolders(LocalPort[p]) # {}

\* C3 witness: after Stop returned, another listener has bound the port.
C3_Witness ==
    \E p \in Proxies :
        /\ stopPc[p] = "returned"
        /\ listener[p] = "closed"
        /\ portOwner[LocalPort[p]] = "ext"

\* The members of the set.
Members == {proxies[i] : i \in 1..Len(proxies)}
\* What a Forwarder is doing, as its callers and clients can see it.
ProxyState(p) == <<LocalPort[p], listener[p], done[p], wg[p], connSem[p], loopPc[p], stopPc[p]>>

\* C4: when StopAll returns, members is empty and every Forwarder that was a
\* member has returned from Stop: listener closed, port no longer held by it,
\* accept loop and handlers ended.
C4_StopAllStopsAll ==
    [][\A t \in Threads :
          StopAllClear(t) =>
            /\ proxies' = <<>>
            /\ mu' = 0
            /\ \A p \in Members :
                 /\ stopPc'[p] = "returned"
                 /\ listener'[p] = "closed"
                 /\ p \notin PortHolders(LocalPort[p])'
                 /\ wg'[p] = 0
                 /\ ~LoopRunning(p)'
                 /\ HandlersRunning(p)' = {}]_vars

\* C4 witness: a StopAll has stopped two members, one of which had admitted
\* a connection, and is about to clear the set.
C4_Witness ==
    \E t \in Threads :
        /\ tpc[t] = "range"
        /\ Len(proxies) = 2
        /\ RangeOver(t)
        /\ \E c \in Conns : cproxy[c] \in Members /\ hpc[c] = "finished"

\* C5: a failing Add leaves members and every member's Forwarder as they
\* were, at the failed bind and at the return; a succeeding Add appends
\* exactly its new, started Forwarder.
C5_AddFailureLeavesMembers ==
    [][\A t \in Threads :
          /\ (AddStart(t) /\ ListenErr(tport[t])) =>
                /\ proxies' = proxies
                /\ portOwner' = portOwner
                /\ \A p \in Members : ProxyState(p)' = ProxyState(p)
          /\ AddFail(t) =>
                /\ proxies' = proxies
                /\ portOwner' = portOwner
                /\ \A p \in Members : ProxyState(p)' = ProxyState(p)
          /\ AddAppend(t) =>
                /\ Len(proxies') = Len(proxies) + 1
                /\ SubSeq(proxies', 1, Len(proxies)) = proxies
                /\ proxies'[Len(proxies')] \notin Members
                /\ listener[proxies'[Len(proxies')]] = "open"]_vars

\* C5 witness: an Add of a port a running member holds has failed to bind.
C5_Witness ==
    \E t \in Threads :
        /\ tpc[t] = "add_err"
        /\ \E p \in Members : LocalPort[p] = tport[t] /\ listener[p] = "open" /\ LoopRunning(p)

\* C6: no two members of the set have the same local port.
C6_DistinctPorts ==
    \A i, j \in 1..Len(proxies) :
        i # j => LocalPort[proxies[i]] # LocalPort[proxies[j]]

\* C6 witness: two members with running Forwarders, no call in progress.
C6_Witness ==
    /\ Len(proxies) = 2
    /\ mu = 0
    /\ \A p \in Members : listener[p] = "open"

\* C7: a Start whose bind failed leaves the Forwarder with no listener, a
\* zero WaitGroup, an empty gate and no accept loop; it holds no port.
C7_StartFailureLeavesNothing ==
    \A t \in Threads :
        tpc[t] = "add_err" =>
            /\ listener[tproxy[t]] = "nil"
            /\ wg[tproxy[t]] = 0
            /\ loopPc[tproxy[t]] = "none"
            /\ connSem[tproxy[t]] = 0
            /\ tproxy[t] \notin PortHolders(tport[t])
            /\ portOwner[tport[t]] = "proxy" => PortHolders(tport[t]) # {}

\* C7 witness: Start failed on a port another program holds.
C7_Witness ==
    \E t \in Threads : tpc[t] = "add_err" /\ portOwner[tport[t]] = "ext"

\* What the handler of c holds and does.
ConnState(c) == <<cst[c], cproxy[c], hpc[c], local[c], remote[c], l2r[c], r2l[c]>>

\* C8: a handler whose dial failed has closed its local connection, has no
\* remote connection and started no copy, so relayed nothing; it is never
\* blocked before its end (its next step is always possible), and its next
\* steps give back exactly its slot, then its WaitGroup unit.
C8_DialFailureCleansUp ==
    /\ [](\A c \in Conns :
            DialFailed(c) =>
                /\ local[c] = "closed"
                /\ remote[c] = "none"
                /\ l2r[c] = "none" /\ r2l[c] = "none"
                /\ hpc[c] = "finished" \/ ENABLED HandlerStep(c))
    /\ [][\A c \in Conns :
            /\ (DialFailed(c) /\ hpc[c] = "release" /\ hpc'[c] # "release") =>
                    /\ hpc'[c] = "wgdone"
                    /\ connSem'[cproxy[c]] = connSem[cproxy[c]] - 1
            /\ (DialFailed(c) /\ hpc[c] = "wgdone" /\ hpc'[c] # "wgdone") =>
                    /\ hpc'[c] = "finished"
                    /\ wg'[cproxy[c]] = wg[cproxy[c]] - 1]_vars

\* C8 witness: a handler whose dial failed has finished, slot and unit back.
C8_Witness ==
    \E c \in Conns :
        /\ DialFailed(c)
        /\ hpc[c] = "finished"
        /\ connSem[cproxy[c]] = 0
        /\ wg[cproxy[c]] = 1

\* The steps by which the handler of c deals with a failure: the dial fails,
\* a copy ends on a timeout or a reset, and the cleanup that follows.
FailureStep(c) ==
    \/ DialFail(c) \/ CopyL2RDone(c) \/ CopyR2LDone(c)
    \/ HandlerReturn(c) \/ ReleaseSlot(c) \/ HandlerWgDone(c)

\* C9: a failure in the handler of c leaves the accept loop, the listener
\* and the stop signal as they were, leaves every other connection as it
\* was, and takes from the gate at most the slot of c; as long as Stop has
\* not been called the accept loop runs.
C9_FailureIsContained ==
    /\ [](\A p \in Proxies : (listener[p] = "open" /\ ~done[p]) => LoopRunning(p))
    /\ [][\A c \in Conns :
            FailureStep(c) =>
                /\ loopPc' = loopPc /\ loopConn' = loopConn
                /\ listener' = listener /\ done' = done /\ stopPc' = stopPc
                /\ portOwner' = portOwner
                /\ \A d \in Conns \ {c} : ConnState(d)' = ConnState(d)
                /\ \A p \in Proxies :
                     connSem'[p] = connSem[p] -
                        (IF p = cproxy[c] /\ hpc[c] = "release" THEN 1 ELSE 0)]_vars

\* C9 witness: the dial of one handler failed while another handler of the
\* same Forwarder relays and the accept loop accepts.
C9_Witness ==
    \E c, d \in Conns :
        /\ c # d /\ cproxy[c] = cproxy[d]
        /\ DialFailed(c)
        /\ hpc[d] = "relay" /\ local[d] = "open" /\ remote[d] = "open"
        /\ loopPc[cproxy[c]] = "accept" /\ listener[cproxy[c]] = "open"

\* The steps of Add and StopAll that do I/O or block: the bind, the close
\* of a listener, the wait for a Forwarder's work.
IOStep(t) == AddStart(t) \/ StopAllClose(t) \/ StopAllWait(t)

\* C10 as stated: no bind, no listener close and no wait happens while the
\* caller holds the mutex.
C10_NoIOUnderLock ==
    [][\A t \in Threads : IOStep(t) => mu # t]_vars

\* C10 amended: the mutex is held for the whole of Add and of StopAll, from
\* entry to return; the bind, every listener close and every wait happen
\* while the caller holds it, and members changes only under it.
C10_LockHeldThroughCall ==
    /\ [](\A t \in Threads : (tpc[t] # "idle") <=> (mu = t))
    /\ [][/\ \A t \in Threads : IOStep(t) => (mu = t /\ mu' = t)
          /\ proxies' # proxies => (mu # 0 /\ mu' = 0)]_vars

\* C10 witness: a caller blocked in Stop's wait, work still running, holds
\* the mutex while another caller is outside.
C10_Witness ==
    \E t, u \in Threads :
        /\ t # u /\ mu = t /\ tpc[u] = "idle"
        /\ tpc[t] = "stop"
        /\ stopPc[tproxy[t]] = "closed"
        /\ wg[tproxy[t]] > 0

----------------------------------------------------------------------------

\* C11: the listener of a Forwarder is bound by Start and closed by Stop's
\* close step only, which always finds it open (so it is closed once); the
\* port leaves the Forwarder in that step only; an accept error, a rejection
\* or a failure in a handler leaves the listener and the port table alone.
C11_ListenerReleasedOnceByStop ==
    /\ [](\A p \in Proxies :
            /\ listener[p] = "closed" => stopPc[p] \in {"closed", "returned"}
            /\ listener[p] = "open" => p \in PortHolders(LocalPort[p])
                                       /\ portOwner[LocalPort[p]] = "proxy")
    /\ [][\A p \in Proxies :
            /\ listener'[p] # listener[p] =>
                 \/ /\ listener[p] = "nil" /\ listener'[p] = "open"
                    /\ \E t \in Threads : AddStart(t) /\ tproxy'[t] = p
                 \/ /\ listener[p] = "open" /\ listener'[p] = "closed"
                    /\ \E t \in Threads : StopAllClose(t) /\ tproxy[t] = p
            /\ (\E t \in Threads : StopAllClose(t) /\ tproxy[t] = p) =>
                 listener[p] = "open" /\ listener'[p] = "closed"
            /\ (\/ AcceptError(p) \/ Reject(p)
                \/ \E c \in Conns : cproxy[c] = p /\ FailureStep(c)) =>
                 listener' = listener /\ portOwner' = portOwner]_vars

\* C11 witness: a Forwarder that rejected a connection and had a dial fail
\* listens on, Stop not called.
C11_Witness ==
    \E p \in Proxies, c, d \in Conns :
        /\ listener[p] = "open" /\ stopPc[p] = "none" /\ LoopRunning(p)
        /\ cproxy[c] = p /\ cst[c] = "rejected"
        /\ cproxy[d] = p /\ DialFailed(d)

\* C14: the handler closes local and remote and gives back its slot only
\* after both copy goroutines have finished, in either order; as long as a
\* copy runs both connections are open (at most half-closed by the copy
\* that finished) and the slot is held.
C14_CleanupAfterBothRelays ==
    /\ [](\A c \in Conns :
            (l2r[c] = "copy" \/ r2l[c] = "copy") =>
                /\ hpc[c] = "relay"
                /\ local[c] # "closed" /\ remote[c] # "closed"
                /\ c \in Holders(cproxy[c])
                /\ ~ENABLED HandlerReturn(c))
    /\ [][\A c \in Conns :
            (\/ local'[c] = "closed" /\ local[c] # "closed" /\ remote[c] # "none"
             \/ remote'[c] = "closed" /\ remote[c] # "closed"
             \/ (ReleaseSlot(c) /\ remote[c] # "none")) =>
                (l2r[c] = "fin" /\ r2l[c] = "fin")]_vars

\* C14 witness: the remote-to-local direction finished first, the other
\* still copies, nothing is cleaned up.
C14_Witness ==
    \E c \in Conns :
        /\ hpc[c] = "relay"
        /\ r2l[c] = "fin" /\ l2r[c] = "copy"
        /\ local[c] # "closed" /\ remote[c] # "closed"

\* The handlers of p whose WaitGroup unit is outstanding.
Counted(p) == {c \in Conns : cproxy[c] = p /\ hpc[c] \in {"spawned", "start", "relay", "release", "wgdone"}}

\* C16: the slots held are exactly the admitted handlers that have not yet
\* released, the WaitGroup counts the accept loop and the handlers not yet
\* done, a release is never blocked, a rejected connection holds nothing and
\* its rejection moves neither count; each handler gives back one slot and
\* one unit, once, on the dial-failure path and on the relay path alike.
C16_SlotAccounting ==
    /\ [](\A p \in Proxies :
            /\ connSem[p] = Cardinality(Holders(p))
            /\ wg[p] = Cardinality(Counted(p)) + (IF LoopRunning(p) THEN 1 ELSE 0))
    /\ [](\A c \in Conns :
            /\ hpc[c] = "release" => ENABLED ReleaseSlot(c)
            /\ cst[c] = "rejected" => hpc[c] = "none"
            /\ hpc[c] # "none" => cst[c] = "admitted")
    /\ [][/\ \A p \in Proxies : Reject(p) => (connSem' = connSem /\ wg' = wg)
          /\ \A c \in Conns :
               /\ (hpc[c] # "wgdone" /\ hpc'[c] = "wgdone") =>
                     /\ hpc[c] = "release"
                     /\ connSem' = [connSem EXCEPT ![cproxy[c]] = @ - 1]
                     /\ wg' = wg
               /\ (hpc[c] # "finished" /\ hpc'[c] = "finished") =>
                     /\ hpc[c] = "wgdone"
                     /\ wg' = [wg EXCEPT ![cproxy[c]] = @ - 1]
                     /\ connSem' = connSem
               /\ hpc[c] = "finished" => hpc'[c] = "finished"]_vars

\* C16 witness: on one Forwarder a handler whose dial failed and a handler
\* that relayed have both finished, a third connection was rejected, and
\* the gate is empty again.
C16_Witness ==
    \E p \in Proxies, c, d, e \in Conns :
        /\ cproxy[c] = p /\ cproxy[d] = p /\ cproxy[e] = p
        /\ DialFailed(c) /\ hpc[c] = "finished"
        /\ remote[d] = "closed" /\ hpc[d] = "finished"
        /\ cst[e] = "rejected"
        /\ connSem[p] = 0

\* A step of the accept loop of p.
LoopStep(p) == AcceptError(p) \/ Admit(p) \/ Reject(p) \/ \E c \in Conns : Accept(p, c)

\* C17 as stated: the loop accepts no connection once Stop has been called.
C17_NoAcceptAfterStopCalled ==
    [][\A p \in Proxies, c \in Conns : Accept(p, c) => stopPc[p] = "none"]_vars

\* C17 amended: Stop raises the signal, then closes the listener, then waits.
\* An accept error on the closed listener is seen with the signal raised and
\* ends the loop; once the listener is closed no connection is accepted, the
\* loop is never blocked and is at most one select away from that error.
\* Between the signal and the close a queued connection can still be
\* accepted.
C17_StopOrderEndsLoop ==
    /\ [](\A p \in Proxies :
            /\ stopPc[p] # "none" => done[p]
            /\ listener[p] = "closed" <=> stopPc[p] \in {"closed", "returned"}
            /\ stopPc[p] = "returned" => wg[p] = 0 /\ loopPc[p] = "exited"
            /\ (listener[p] = "closed" /\ LoopRunning(p)) =>
                  /\ ENABLED LoopStep(p)
                  /\ \A c \in Conns : ~ENABLED Accept(p, c))
    /\ [][\A p \in Proxies :
            /\ stopPc'[p] # stopPc[p] =>
                 <<stopPc[p], stopPc'[p]>> \in
                    {<<"none", "signalled">>, <<"signalled", "closed">>, <<"closed", "returned">>}
            /\ (AcceptError(p) /\ listener[p] = "closed") =>
                 (done[p] /\ loopPc'[p] = "exited")
            /\ (listener[p] = "closed" /\ loopPc[p] = "select") =>
                 loopPc'[p] \in {"select", "accept"}
            /\ \A c \in Conns : Accept(p, c) => listener[p] = "open"
            /\ loopPc[p] = "exited" => loopPc'[p] = "exited"]_vars

\* C17 witness: Stop has closed the listener and waits, the loop has exited
\* on the accept error, a handler admitted before still relays.
C17_Witness ==
    \E p \in Proxies, c \in Conns :
        /\ stopPc[p] = "closed" /\ loopPc[p] = "exited"
        /\ cproxy[c] = p /\ hpc[c] = "relay"

\* C18: an accept error seen while done is open leaves the loop where it
\* was, at Accept, with its WaitGroup unit; from Start until Stop is called
\* the loop runs; the loop exits only on an accept error, with done closed.
C18_AcceptErrorRetries ==
    /\ [](\A p \in Proxies :
            /\ (listener[p] # "nil" /\ stopPc[p] = "none") => LoopRunning(p)
            /\ loopPc[p] = "exited" => done[p]
            /\ LoopRunning(p) => wg[p] >= 1)
    /\ [][\A p \in Proxies :
            /\ (AcceptError(p) /\ ~done[p]) =>
                 /\ loopPc'[p] = "accept"
                 /\ wg'[p] = wg[p]
                 /\ listener'[p] = listener[p]
            /\ (loopPc[p] # "exited" /\ loopPc'[p] = "exited") =>
                 /\ AcceptError(p)
                 /\ loopPc[p] = "accept"
                 /\ done[p]
                 /\ wg'[p] = wg[p] - 1]_vars

\* C18 witness: a loop that has served connections is back at Accept on an
\* open listener, done open: an accept error now is retried.
C18_Witness ==
    \E p \in Proxies, c \in Conns :
        /\ loopPc[p] = "accept" /\ listener[p] = "open" /\ ~done[p]
        /\ ENABLED AcceptError(p)
        /\ cproxy[c] = p /\ hpc[c] = "finished"

\* s is an initial part of t.
IsPrefix(s, t) == Len(s) <= Len(t) /\ SubSeq(t, 1, Len(s)) = s
\* What the echo backend has sent back so far.
Echoed(c) == SubSeq(rgot[c], 1, becho[c])
\* The exchange on c is over: the client shut down, the backend echoed all
\* it received and closed, both copies have returned (on end of stream or
\* on a deadline) and nothing is left unread.
Drained(c) ==
    /\ cfin[c] /\ bfin[c]
    /\ l2r[c] = "fin" /\ r2l[c] = "fin"
    /\ lbuf[c] = <<>> /\ rbuf[c] = <<>> /\ becho[c] = Len(rgot[c])

\* C12 as stated: on every connection the bytes delivered to the remote
\* are, in order and unchanged, the bytes the client wrote less those still
\* waiting on the local conn, and the bytes delivered to the client are the
\* bytes the backend sent less those still waiting on the remote conn, as
\* long as the copy of that direction runs; what was delivered stays an
\* initial part of the payload; nothing reaches either side before the
\* handler has dialled; and when the exchange is over the echo backend has
\* received, and the client has got back, exactly the payload written, the
\* empty payload included.  The deadlines are absolute and the one on
\* remote is set later than the one on local by the time the dial took: a
\* copy from remote to local that runs when the local deadline has passed
\* reads the echoed bytes, fails to write them and returns, and the client
\* reads end of stream without them.
C12_RelayIsFaithful ==
    \A c \in Conns :
        /\ l2r[c] # "fin" => rgot[c] \o lbuf[c] = wrote[c]
        /\ r2l[c] # "fin" => cgot[c] \o rbuf[c] = Echoed(c)
        /\ IsPrefix(rgot[c], wrote[c])
        /\ IsPrefix(cgot[c], wrote[c])
        /\ hpc[c] \in {"none", "spawned", "start"} => (rgot[c] = <<>> /\ cgot[c] = <<>>)
        /\ Drained(c) => (rgot[c] = wrote[c] /\ cgot[c] = wrote[c])

\* Every byte of s was written by the client of c.
OwnBytes(s, c) == \A i \in 1..Len(s) : s[i] \in Bytes(c)

\* C13: whatever is delivered to the backend socket of a connection, waits
\* on its local or remote conn, or is delivered to its client was written by
\* the client of that same connection, under every interleaving of two
\* connections relayed at the same time; what its backend got is an initial
\* part of what its own client wrote.
C13_NoCrossDelivery ==
    \A a \in Conns :
        /\ OwnBytes(rgot[a], a) /\ OwnBytes(cgot[a], a)
        /\ OwnBytes(lbuf[a], a) /\ OwnBytes(rbuf[a], a)
        /\ IsPrefix(rgot[a], wrote[a])
        /\ \A b \in Conns \ {a} :
             \A i \in 1..Len(wrote[a]) :
                 /\ \A j \in 1..Len(rgot[b]) : rgot[b][j] # wrote[a][i]
                 /\ \A j \in 1..Len(cgot[b]) : cgot[b][j] # wrote[a][i]

\* C13 witness: two connections are relayed at the same time and each
\* backend and each client has received bytes.
C13_Witness ==
    \E a, b \in Conns :
        /\ a # b
        /\ hpc[a] = "relay" /\ hpc[b] = "relay"
        /\ l2r[a] = "copy" /\ l2r[b] = "copy"
        /\ rgot[a] # <<>> /\ rgot[b] # <<>>
        /\ cgot[a] # <<>> /\ cgot[b] # <<>>

\* Neither deadline of c has passed.
InTime(c) == ~Expired(ldl[c]) /\ ~Expired(rdl[c])

\* C15: when a copy returns on end of stream the handler shuts down the
\* sending half of the destination only: the destination is not closed, the
\* other conn, the reverse copy and the bytes waiting for it are untouched.
\* While the reverse copy runs it can read the destination and write the
\* other conn: waiting bytes can be moved and end of stream can be seen;
\* it ends only by its own return, on end of stream or on a deadline, and
\* when it ends on end of stream all that the peer sent has been delivered
\* (a copy that a deadline ends may have read bytes it did not deliver).
C15_HalfCloseOnly ==
    /\ [](\A c \in Conns :
            /\ (l2r[c] = "fin" /\ r2l[c] = "copy") =>
                 /\ remote[c] = "wshut" /\ local[c] = "open"
                 /\ (rbuf[c] # <<>> /\ InTime(c)) => ENABLED CopyR2LChunk(c)
                 /\ (rbuf[c] = <<>> /\ bfin[c] /\ InTime(c)) => ENABLED CopyR2LEof(c)
                 /\ (becho[c] < Len(rgot[c]) /\ ~bfin[c]) => ENABLED BackendEcho(c)
            /\ (r2l[c] = "fin" /\ l2r[c] = "copy") =>
                 /\ local[c] = "wshut" /\ remote[c] = "open"
                 /\ (lbuf[c] # <<>> /\ InTime(c)) => ENABLED CopyL2RChunk(c)
                 /\ (lbuf[c] = <<>> /\ cfin[c] /\ InTime(c)) => ENABLED CopyL2REof(c))
    /\ [][\A c \in Conns :
            /\ CopyL2REof(c) =>
                 /\ remote[c] = "open" /\ remote'[c] = "wshut"
                 /\ local' = local /\ r2l' = r2l /\ hpc' = hpc
                 /\ rbuf' = rbuf /\ cgot' = cgot
                 /\ rgot[c] = wrote[c] /\ rgot'[c] = wrote'[c]
            /\ CopyR2LEof(c) =>
                 /\ local[c] = "open" /\ local'[c] = "wshut"
                 /\ remote' = remote /\ l2r' = l2r /\ hpc' = hpc
                 /\ lbuf' = lbuf /\ rgot' = rgot
                 /\ cgot[c] = Echoed(c) /\ cgot'[c] = Echoed(c)'
            /\ (r2l[c] = "copy" /\ r2l'[c] # "copy") => (CopyR2LEof(c) \/ CopyR2LTimeout(c))
            /\ (l2r[c] = "copy" /\ l2r'[c] # "copy") => (CopyL2REof(c) \/ CopyL2RTimeout(c))]_vars

\* C15 witness: the client shut down and the local-to-remote copy ended on
\* end of stream while echoed bytes still wait on the remote conn; the
\* sending half of remote is shut, the reverse copy runs and can move them.
C15_Witness ==
    \E c \in Conns :
        /\ l2r[c] = "fin" /\ cfin[c] /\ lbuf[c] = <<>> /\ InTime(c)
        /\ r2l[c] = "copy" /\ remote[c] = "wshut"
        /\ rbuf[c] # <<>> /\ Len(cgot[c]) < Len(wrote[c])
        /\ ENABLED CopyR2LChunk(c)

\* Stop is at work on p: called, not yet returned.
Stopping(p) == stopPc[p] \in {"signalled", "closed"}
\* What travels on the connection of c and when it times out.
NetState(c) == <<ldl[c], rdl[c], wrote[c], cfin[c], lbuf[c], rgot[c], becho[c], bfin[c], rbuf[c], cgot[c]>>

\* C19: no step of Stop changes anything of a handler or of its
\* connections; while Stop is at work a handler of that Forwarder in its
\* relay keeps both conns unclosed and its copies go on moving waiting
\* bytes as long as the deadline allows; a copy returns only on end of
\* stream (its peer shut down) or on its deadline; and as long as the
\* handler has not finished Stop cannot return.
C19_StopLeavesHandlersAlone ==
    /\ [](\A c \in Conns :
            (cproxy[c] # 0 /\ Stopping(cproxy[c]) /\ hpc[c] = "relay") =>
                /\ local[c] # "closed" /\ remote[c] # "closed"
                /\ (l2r[c] = "copy" /\ lbuf[c] # <<>> /\ InTime(c)) => ENABLED CopyL2RChunk(c)
                /\ (r2l[c] = "copy" /\ rbuf[c] # <<>> /\ InTime(c)) => ENABLED CopyR2LChunk(c)
                /\ \A t \in Threads : ~ENABLED StopAllWait(t))
    /\ [](\A c \in Conns :
            (cproxy[c] # 0 /\ stopPc[cproxy[c]] = "returned") => hpc[c] \in {"none", "finished"})
    /\ [][/\ \A t \in Threads :
               (StopAllNext(t) \/ StopAllClose(t) \/ StopAllWait(t)) =>
                   \A c \in Conns :
                       hpc[c] # "none" => (ConnState(c)' = ConnState(c) /\ NetState(c)' = NetState(c))
          /\ \A c \in Conns :
               /\ (l2r[c] = "copy" /\ l2r'[c] # "copy") =>
                    \/ lbuf[c] = <<>> /\ cfin[c]
                    \/ Expired(ldl[c]) \/ Expired(rdl[c])
               /\ (r2l[c] = "copy" /\ r2l'[c] # "copy") =>
                    \/ rbuf[c] = <<>> /\ bfin[c]
                    \/ Expired(ldl[c]) \/ Expired(rdl[c])]_vars

\* C19 witness: Stop has closed the listener and waits, the accept loop has
\* exited, and a handler admitted before still relays: bytes wait on its
\* local conn and its copy can move them.
C19_Witness ==
    \E t \in Threads, c \in Conns :
        /\ tpc[t] = "stop" /\ stopPc[tproxy[t]] = "closed" /\ loopPc[tproxy[t]] = "exited"
        /\ cproxy[c] = tproxy[t] /\ hpc[c] = "relay"
        /\ l2r[c] = "copy" /\ lbuf[c] # <<>> /\ rgot[c] # <<>>
        /\ ENABLED CopyL2RChunk(c)

\* How long no byte has moved on the connection of c.
Idle(c) == now - lastCopy[c]

\* C20 as stated: a copy that has been silent for ConnectionTimeout can be
\* ended by the timeout, and a copy is ended by the timeout only when no
\* byte has moved on its connection for ConnectionTimeout.  The deadlines
\* are set once, when the handler starts, and a copy does not move them:
\* the timeout ends a connection on which bytes have just moved.
C20_IdleDeadline ==
    /\ [](\A c \in Conns :
            /\ (l2r[c] = "copy" /\ Idle(c) >= ConnectionTimeout) => ENABLED CopyL2RTimeout(c)
            /\ (r2l[c] = "copy" /\ Idle(c) >= ConnectionTimeout) => ENABLED CopyR2LTimeout(c))
    /\ [][\A c \in Conns :
            (CopyL2RTimeout(c) \/ CopyR2LTimeout(c)) => Idle(c) >= ConnectionTimeout]_vars

----------------------------------------------------------------------------

\* C22: at its select the accept loop is never blocked: the send case or
\* the default case is ready, the send case whenever the gate has room; both
\* take the loop back to Accept, so with a full gate the loop goes on
\* accepting and rejecting, and a connection that comes to the select after
\* a handler gave back its slot is admitted.
C22_GateNeverBlocksLoop ==
    /\ [](\A p \in Proxies :
            loopPc[p] = "select" =>
                /\ ENABLED Admit(p) \/ ENABLED Reject(p)
                /\ SemHasRoom(p) => (ENABLED Admit(p) /\ ~ENABLED Reject(p))
                /\ ~SemHasRoom(p) => ENABLED Reject(p))
    /\ [][\A p \in Proxies :
            /\ (Admit(p) \/ Reject(p)) => (loopPc'[p] = "accept" /\ listener'[p] = listener[p])
            /\ (loopPc[p] = "select" /\ loopPc'[p] # "select") =>
                 cst'[loopConn[p]] = (IF connSem[p] < MaxConnectionsPerProxy
                                      THEN "admitted" ELSE "rejected")]_vars

\* C22 witness: a connection was rejected at the full gate, a handler then
\* gave back its slot, and a later connection has been admitted.
C22_Witness ==
    \E p \in Proxies, c, d, e \in Conns :
        /\ cproxy[c] = p /\ cproxy[d] = p /\ cproxy[e] = p
        /\ c < d /\ cst[c] = "rejected" /\ cst[d] = "admitted"
        /\ hpc[e] \in {"wgdone", "finished"}
        /\ loopPc[p] = "accept"

\* The connections of p the loop has decided on, and how.
Admitted(p) == {c \in Conns : cproxy[c] = p /\ cst[c] = "admitted"}
Rejected(p) == {c \in Conns : cproxy[c] = p /\ cst[c] = "rejected"}
\* No handler of p has given back its slot yet: all admitted connections
\* are still alive.
AllLongLived(p) == \A c \in Admitted(p) : hpc[c] \in {"spawned", "start", "relay", "release"}
Min(a, b) == IF a <= b THEN a ELSE b

\* C23: the loop rejects only at a full gate (N slots held by N handlers)
\* and admits, spawning the handler, whenever fewer are held; so as long as
\* no admitted connection has ended, of the connections decided on the
\* first N are admitted and all the others rejected and closed.
C23_RejectedOnlyWhenFull ==
    /\ [](\A p \in Proxies :
            AllLongLived(p) =>
                /\ Cardinality(Admitted(p)) =
                      Min(Cardinality(Admitted(p) \cup Rejected(p)), MaxConnectionsPerProxy)
                /\ Rejected(p) # {} => Cardinality(Admitted(p)) = MaxConnectionsPerProxy
                /\ \A c \in Rejected(p) : local[c] = "closed" /\ \A d \in Admitted(p) : d < c)
    /\ [][\A p \in Proxies :
            /\ Reject(p) =>
                 /\ connSem[p] = MaxConnectionsPerProxy
                 /\ Cardinality(Holders(p)) = MaxConnectionsPerProxy
            /\ (loopPc[p] = "select" /\ loopPc'[p] # "select" /\ connSem[p] < MaxConnectionsPerProxy) =>
                 /\ cst'[loopConn[p]] = "admitted"
                 /\ hpc'[loopConn[p]] = "spawned"
                 /\ local'[loopConn[p]] = "open"]_vars

\* C23 witness: N+2 connections at once, N relayed, two rejected.
C23_Witness ==
    \E p \in Proxies :
        /\ Cardinality(Relaying(p)) = MaxConnectionsPerProxy
        /\ Cardinality(Rejected(p)) = 2
        /\ AllLongLived(p)

\* C24: a rejection closes the accepted connection and does nothing else:
\* that connection gets no handler, no remote conn, no copy and no deadline,
\* no byte of it moves; the slot count, the WaitGroup, the listener, the stop
\* signal and every other connection are as before.
C24_RejectOnlyCloses ==
    /\ [](\A c \in Conns :
            cst[c] = "rejected" =>
                /\ local[c] = "closed" /\ remote[c] = "none" /\ hpc[c] = "none"
                /\ rgot[c] = <<>> /\ cgot[c] = <<>> /\ ldl[c] = 0 /\ rdl[c] = 0)
    /\ [][\A p \in Proxies, c \in Conns :
            (Reject(p) /\ c = loopConn[p]) =>
                /\ local'[c] = "closed"
                /\ hpc'[c] = "none" /\ remote'[c] = "none"
                /\ l2r'[c] = "none" /\ r2l'[c] = "none"
                /\ NetState(c)' = NetState(c)
                /\ connSem' = connSem /\ wg' = wg
                /\ listener' = listener /\ done' = done /\ portOwner' = portOwner
                /\ proxies' = proxies
                /\ \A d \in Conns \ {c} :
                     ConnState(d)' = ConnState(d) /\ NetState(d)' = NetState(d)]_vars

\* C24 witness: a connection has been rejected and closed while the N
\* admitted ones hold their slots and the WaitGroup counts them and the loop.
C24_Witness ==
    \E p \in Proxies, c \in Conns :
        /\ cproxy[c] = p /\ cst[c] = "rejected" /\ local[c] = "closed"
        /\ connSem[p] = MaxConnectionsPerProxy
        /\ wg[p] = MaxConnectionsPerProxy + 1
        /\ loopPc[p] = "accept"

\* C25: the WaitGroup of a Forwarder rises in two steps only: in Start,
\* from zero, before Stop was ever called, and in an admission by the accept
\* loop, in the very step that spawns the handler and while the loop's own
\* unit is outstanding (the counter is at least one).  So once the counter
\* is zero with Stop waiting or returned it stays zero, and after Stop has
\* returned no handler is spawned, whatever the loop had accepted before
\* the listener was closed.
C25_CounterRisesUnderLoopUnit ==
    /\ [](\A p \in Proxies :
            /\ LoopRunning(p) => wg[p] >= 1
            /\ stopPc[p] = "returned" => (wg[p] = 0 /\ ~LoopRunning(p) /\ loopConn[p] = 0))
    /\ [][\A p \in Proxies :
            /\ wg'[p] > wg[p] =>
                 /\ wg'[p] = wg[p] + 1
                 /\ \/ /\ wg[p] = 0 /\ stopPc[p] = "none" /\ loopPc[p] = "none"
                       /\ loopPc'[p] = "accept"
                    \/ /\ Admit(p) /\ wg[p] >= 1
                       /\ \E c \in Conns : hpc[c] = "none" /\ hpc'[c] = "spawned" /\ cproxy[c] = p
            /\ (\E c \in Conns : cproxy[c] = p /\ hpc[c] = "none" /\ hpc'[c] # "none") =>
                 (wg'[p] = wg[p] + 1 /\ stopPc[p] # "returned")
            /\ (wg[p] = 0 /\ stopPc[p] \in {"closed", "returned"}) => wg'[p] = 0]_vars

\* C25 witness: Stop has closed the listener and waits while the loop
\* still holds a connection it accepted before, with room at the gate: the
\* admission to come happens under the loop's unit.
C25_Witness ==
    \E p \in Proxies :
        /\ stopPc[p] = "closed"
        /\ loopPc[p] = "select" /\ loopConn[p] # 0 /\ SemHasRoom(p)
        /\ wg[p] >= 1
        /\ ENABLED Admit(p)

\* C28: the Forwarder a StopAll is about to stop has never been stopped: its
\* done channel is open and its listener open, so close(done) does not
\* panic and no listener is closed twice.  Outside a call no member has
\* been stopped and no Forwarder is a member twice; StopAll leaves members
\* empty, so a StopAll that finds it empty stops nothing.
C28_StopOncePerForwarder ==
    /\ [](\A t \in Threads :
            (tpc[t] = "range" /\ ~RangeOver(t)) =>
                /\ ~done[proxies[tidx[t]]]
                /\ stopPc[proxies[tidx[t]]] = "none"
                /\ listener[proxies[tidx[t]]] = "open")
    /\ [](/\ mu = 0 => \A p \in Members : stopPc[p] = "none" /\ ~done[p]
          /\ \A i, j \in 1..Len(proxies) : i # j => proxies[i] # proxies[j])
    /\ [][/\ \A p \in Proxies :
               /\ done[p] => done'[p]
               /\ (done'[p] /\ ~done[p]) => \E t \in Threads : StopAllNext(t) /\ proxies[tidx[t]] = p
               /\ stopPc[p] = "returned" => stopPc'[p] = "returned"
          /\ \A t \in Threads :
               (StopAllLock(t) /\ proxies = <<>>) =>
                   (RangeOver(t)' /\ done' = done /\ listener' = listener)]_vars

\* C28 witness: a second StopAll, after one that stopped a Forwarder, finds
\* members empty and is about to return.
C28_Witness ==
    \E t \in Threads, p \in Proxies :
        /\ tpc[t] = "range" /\ proxies = <<>> /\ RangeOver(t)
        /\ stopPc[p] = "returned" /\ done[p]

\* The Forwarders that run: listener open, accept loop not ended.
Running == {p \in Proxies : listener[p] = "open"}

\* C29: whenever the mutex is free, members is exactly the set of running
\* Forwarders: each member was started and not stopped (listener open,
\* accept loop running, Stop never called), and no Forwarder runs outside
\* members.  Calls are serialized: at most one caller is inside Add or
\* StopAll; an Add appends a running Forwarder to the members it found, and
\* a StopAll empties members having stopped every one of them, so a
\* Forwarder added before it is stopped and one added after it is a member.
C29_MembersAreTheRunning ==
    /\ [](mu = 0 =>
            /\ Members = Running
            /\ \A p \in Members : LoopRunning(p) /\ stopPc[p] = "none" /\ ~done[p]
            /\ \A p \in Proxies \ Members : ~LoopRunning(p))
    /\ [](\A t, u \in Threads : (t # u /\ tpc[t] # "idle") => tpc[u] = "idle")
    /\ [][\A t \in Threads :
            /\ AddAppend(t) =>
                 /\ Members' = Members \cup {tproxy[t]}
                 /\ tproxy[t] \in Running /\ tproxy[t] \notin Members
                 /\ Running' = Running
            /\ StopAllClear(t) =>
                 /\ Members' = {}
                 /\ Running' = {}
                 /\ \A p \in Members : stopPc[p] = "returned"]_vars

\* C29 witness: after a StopAll that stopped a Forwarder an Add has
\* returned: the mutex is free, the new Forwarder is a running member, the
\* stopped one is not a member.
C29_Witness ==
    \E p, q \in Proxies :
        /\ mu = 0
        /\ Members = {p} /\ listener[p] = "open" /\ LoopRunning(p)
        /\ stopPc[q] = "returned" /\ listener[q] = "closed"

\* The processes inside Load -> Modify -> Save: from the Load to the return.
InCritical == {p \in Procs : ppc[p] \in {"load", "work", "save", "resave", "release"}}
\* The modification of the command is in the config cfg.
Contains(op, cfg) ==
    CASE op.kind \in {"create", "clone"} -> Container(op.name) \in cfg
      [] op.kind = "snapshot_create"     -> UserSnapshot(op.name) \in cfg
      [] op.kind = "snapshot_delete"     -> UserSnapshot(op.name) \notin cfg
      [] OTHER                           -> Container(op.name) \notin cfg

\* C30: at most one process holds the config lock; a command holds it from
\* before its Load until after its last Save; every Save writes the file as
\* it is at that moment with the command's own modification applied, so no
\* update of the other command is lost; and a command that is about to
\* return after its Save finds its modification in the file (a remove the
\* user cancelled returns without one).
C30_NoLostUpdate ==
    /\ [](Cardinality(held) <= 1)
    /\ [](InCritical \subseteq held)
    /\ [](\A p \in Procs : ppc[p] = "release" => Contains(pop[p], file))
    /\ [][\A p \in Procs :
            /\ Save(p) => file' = Modify(pop[p], file)
            /\ Resave(p) => file' = AddSnapshot(file, InitialState(pop[p].name))]_vars

\* Two creates of different containers, one returned and one about to:
\* the file lists both containers.
C30_Witness ==
    /\ ppc[1] = "done" /\ pop[1].kind = "create"
    /\ ppc[2] = "release" /\ pop[2].kind = "create"
    /\ pop[1].name # pop[2].name
    /\ {Container(pop[1].name), Container(pop[2].name)} \subseteq file

\* The Forwarder of p is stopped in every respect: Stop has returned, the
\* listener is closed, no port is held by it, the loop and the handlers ended.
Stopped(p) ==
    /\ stopPc[p] = "returned"
    /\ listener[p] = "closed"
    /\ PortHolders(LocalPort[p]) \cap {p} = {}
    /\ ~LoopRunning(p)
    /\ HandlersRunning(p) = {}
\* Nothing of p has been stopped: Stop not called, listener open, loop
\* running.
Untouched(p) ==
    /\ stopPc[p] = "none" /\ ~done[p]
    /\ listener[p] = "open"
    /\ LoopRunning(p)
\* The Proxy objects the command has made so far.
Allocated == {p \in Proxies : ~Unallocated(p)}

\* C26: once every port has its Forwarder the command blocks: it takes no
\* step until a signal is in sigChan, and every Forwarder of the session
\* runs untouched meanwhile (no Forwarder is stopped while the Adds go on
\* or the command waits).  The command leaves the wait only by receiving a
\* signal and calling StopAll, and it returns nil only as StopAll returns,
\* every Forwarder stopped.
C26_StopOnlyOnSignal ==
    /\ [](cmdPc = "wait" =>
            /\ tpc[Cmd] = "idle"
            /\ Len(proxies) = Len(cmdPorts)
            /\ \A p \in Members : Untouched(p)
            /\ sigChan = 0 => ~ENABLED CmdStop)
    /\ [](cmdPc \in {"add", "in_add", "wait"} => \A p \in Members : Untouched(p))
    /\ [][cmdPc = "wait" /\ cmdPc' # "wait" =>
            /\ sigChan > 0
            /\ cmdPc' = "in_stop"
            /\ tpc'[Cmd] = "range"]_vars
    /\ [][cmdPc # "returned_nil" /\ cmdPc' = "returned_nil" =>
            /\ cmdPc = "in_stop"
            /\ tpc[Cmd] = "range" /\ tpc'[Cmd] = "idle"
            /\ proxies' = <<>>
            /\ \A p \in Allocated : Stopped(p)']_vars

\* The command has returned nil after a session with two Forwarders, both
\* stopped by the StopAll that followed the signal.
C26_Witness ==
    /\ cmdPc = "returned_nil"
    /\ Len(cmdPorts) = 2
    /\ Cardinality({p \in Proxies : Stopped(p)}) = 2

\* C27: an Add that fails sends the command (unless a signal ends the
\* process) to StopAll and nowhere else,
\* and the command returns the error only as that StopAll returns; when it
\* has returned the error no Forwarder runs: every Forwarder started for an
\* earlier port is stopped, no port is held by a Proxy, members is empty.
C27_AllOrNothing ==
    /\ [](cmdPc = "returned_err" =>
            /\ proxies = <<>>
            /\ Running = {}
            /\ \A q \in Ports : portOwner[q] # "proxy"
            /\ \A p \in Proxies : listener[p] # "nil" => Stopped(p))
    /\ [][cmdPc = "in_add" /\ tpc[Cmd] = "add_err" /\ tpc'[Cmd] = "idle" =>
            cmdPc' \in {"cleanup", "killed"}]_vars
    /\ [][cmdPc = "cleanup" /\ cmdPc' \notin {"cleanup", "killed"} =>
            cmdPc' = "in_cleanup" /\ tpc'[Cmd] = "range"]_vars
    /\ [][cmdPc # "returned_err" /\ cmdPc' = "returned_err" =>
            /\ cmdPc = "in_cleanup"
            /\ tpc[Cmd] = "range" /\ tpc'[Cmd] = "idle"]_vars

\* The Add for the second port failed, the command returned the error, and
\* the Forwarder started for the first port is stopped.
C27_Witness ==
    /\ cmdPc = "returned_err"
    /\ cmdIdx = 2
    /\ \E p \in Proxies : Stopped(p)

\* The handler goroutine of c is running: spawned and not yet returned.
Alive(c) == hpc[c] \in {"spawned", "start", "relay", "release", "wgdone"}
\* A step of the handler of c or of one of its copy goroutines.
HandlerOrCopyStep(c) ==
    \/ HandlerStep(c)
    \/ CopyL2RChunk(c) \/ CopyL2REof(c) \/ CopyL2RTimeout(c)
    \/ CopyR2LChunk(c) \/ CopyR2LEof(c) \/ CopyR2LTimeout(c)
\* A step of the accept loop of p, of a handler of p or of one of its copies.
GoroutineStep(p) ==
    \/ AcceptError(p) \/ Admit(p) \/ Reject(p)
    \/ \E c \in Conns : Accept(p, c)
    \/ \E c \in Conns : cproxy[c] = p /\ HandlerOrCopyStep(c)
\* The clock of the model can still advance.
BeforeHorizon == now + DialTimeout <= MaxTime

\* C21: with goroutines that run as soon as they can, no time passes
\* between the admission of a connection and the first statement of its
\* handler, and a handler is alive (and so holds its slot) no later than
\* DialTimeout + ConnectionTimeout after that moment, whatever the peers do
\* or leave undone; when the clock waits for a handler, that handler or one
\* of its copies has a step to take, so the bound is met by the handler
\* ending and not by time standing still; and a Stop that waits is never
\* stuck: it can return, or a goroutine it waits for can step, or time can
\* pass towards the deadlines.
C21_HandlerLifetimeBounded ==
    /\ [](\A c \in Conns :
            /\ Alive(c) /\ hpc[c] # "spawned"
                  => now <= began[c] + DialTimeout + ConnectionTimeout
            /\ hpc[c] = "start" /\ now >= began[c] + DialTimeout => ENABLED DialFail(c)
            /\ Alive(c) /\ (Pending(c) \/ CopyOverdue(c, now + DialTimeout))
                  => ENABLED HandlerOrCopyStep(c))
    /\ [](\A p \in Proxies :
            stopPc[p] = "closed" /\ BeforeHorizon
               => WaitReturns(p) \/ ENABLED GoroutineStep(p) \/ ENABLED Elapse)
    /\ [][\A c \in Conns : hpc[c] = "spawned" => now' = now]_vars

\* A connection on which nobody sent or closed anything, its dial having
\* taken DialTimeout: DialTimeout + ConnectionTimeout after its handler began the
\* copy that reads the remote conn is still blocked, the handler holds its
\* slot, and a Stop waits for it.
C21_Witness ==
    \E c \in Conns :
        /\ hpc[c] = "relay" /\ r2l[c] = "copy"
        /\ now = began[c] + DialTimeout + ConnectionTimeout
        /\ wrote[c] = <<>> /\ ~cfin[c] /\ ~bfin[c]
        /\ stopPc[cproxy[c]] = "closed"

====
